---------------------------- MODULE Spec2Model ----------------------------
(***************************************************************************)
(* A model of pasta: the scope resolver (pasta/base/scope.py), the import  *)
(* splitting edit (pasta/augment/import_utils.py) and the annotator with   *)
(* its shared traversal (pasta/base/annotate.py).                          *)
(*                                                                         *)
(* A syntax tree is a heap: a sequence of node records, a node being named *)
(* by its index (object identity).  0 is None.  A record holds the fields  *)
(* of its ast class; `hasattr(node, f)' is `f \in DOMAIN node'.  A Python  *)
(* str held in a child field (the vararg of a Python 2 `arguments') is a   *)
(* heap entry of type "str".                                               *)
(***************************************************************************)
EXTENDS Integers, Sequences, FiniteSets, TLC

VARIABLES
  tree,                 \* the heap of ast nodes
  pc,                   \* where the caller of the library is
  \* ---- scope.py: ScopeVisitor / RootScope / Scope / Name
  scopes,               \* heap of Scope objects: [parent_scope, names]
  nameobjs,             \* heap of Name objects: [id, definition, reads, attrs]
  scope,                \* ScopeVisitor.scope
  vparent,              \* ScopeVisitor._parent
  parents,              \* RootScope._parents
  external_references,  \* RootScope.external_references
  nodes_to_names,       \* RootScope._nodes_to_names
  work,                 \* the pending part of ScopeVisitor's recursion
  verr,                 \* the exception that left analyze(), or "none"
  opened,               \* history: the Scope each FunctionDef / ClassDef opened
  log,                  \* what the last operation did (a history record)
  \* ---- annotate.py / generation
  source,               \* the token stream of the source text
  fmt,                  \* per node: the formatting properties set on it
  cursor,               \* the token cursor after annotation
  parens,               \* the open bracket nesting after annotation
  code,                 \* the generated text
  emitted,              \* per node and slot: the text generation wrote
  tree0                 \* the tree as it was when it was annotated

vars == <<tree, pc, scopes, nameobjs, scope, vparent, parents,
          external_references, nodes_to_names, work, verr, opened, log,
          source, fmt, cursor, parens, code, emitted, tree0>>

scopeVars == <<scopes, nameobjs, scope, vparent, parents,
               external_references, nodes_to_names, work, verr, opened>>
fmtVars == <<source, fmt, cursor, parens, code, emitted, tree0>>

(***************************************************************************)
(* Bounds of the model.                                                    *)
(***************************************************************************)
MaxScopes == 3      \* Scope objects alive in the Scope API exploration
MaxOps == 6         \* operations in one Scope API exploration
MaxSplits == 2      \* split_import calls after one analyze
MaxEdits == 1       \* edits of the tree by the caller
MaxAnalyses == 1    \* calls of analyze() on one tree
MaxCalls == 4       \* analyze, split_import and edits on one tree, together

None == 0
RootId == 1     \* the RootScope is the first Scope object made
EmptyFn == << >>
Has(f, k) == k \in DOMAIN f
Put(f, k, v) == (k :> v) @@ f

RECURSIVE SeqIndex(_, _, _)
\* list.index(x) from position i on; 0 when x is not in the list
SeqIndex(s, x, i) ==
  IF i > Len(s) THEN 0 ELSE IF s[i] = x THEN i ELSE SeqIndex(s, x, i + 1)

InSeq(s, x) == \E i \in 1..Len(s) : s[i] = x

InsertAt(s, i, x) == SubSeq(s, 1, i - 1) \o <<x>> \o SubSeq(s, i, Len(s))
RemoveAt(s, i) == SubSeq(s, 1, i - 1) \o SubSeq(s, i + 1, Len(s))


(***************************************************************************)
(* scope.py: Name, Scope, RootScope.  The operators below work on a record *)
(* H = [scopes, nameobjs, ret]: the two object heaps and the value the     *)
(* method returns.  Scope 1 is the RootScope (the only scope whose         *)
(* parent_scope is None).                                                  *)
(***************************************************************************)

\* Name.__init__
Name_init(id) == [id |-> id, definition |-> None, reads |-> <<>>, attrs |-> EmptyFn]

\* Name.add_reference
Name_add_reference(nm, node) == [nm EXCEPT !.reads = Append(@, node)]

\* Name.define taking a Name that has been read for a defined one
Mut_define_after_read(nm, node) ==
  IF nm.definition # None \/ nm.reads # <<>>
    THEN [nm EXCEPT !.reads = Append(@, node)]
    ELSE [nm EXCEPT !.definition = node]

\* Name.define
Name_define(nm, node) ==
  IF nm.definition # None
    THEN [nm EXCEPT !.reads = Append(@, node)]
    ELSE [nm EXCEPT !.definition = node]

\* Name.lookup_name: the nested Name of an attribute, created on first use
Name_lookup_name(H, nm, name) ==
  IF Has(H.nameobjs[nm].attrs, name)
    THEN [H EXCEPT !.ret = H.nameobjs[nm].attrs[name]]
    ELSE LET new == Len(H.nameobjs) + 1 IN
         [H EXCEPT !.nameobjs = [Append(@, Name_init(name)) EXCEPT
                                   ![nm].attrs = Put(@, name, new)],
                   !.ret = new]

\* Scope.__init__
Scope_init(parent_scope) == [parent_scope |-> parent_scope, names |-> EmptyFn]

\* Scope.define_name
Scope_define_name(H, s, name, node) ==
  LET known == Has(H.scopes[s].names, name)
      name_obj == IF known THEN H.scopes[s].names[name] ELSE Len(H.nameobjs) + 1
      objs == IF known THEN H.nameobjs ELSE Append(H.nameobjs, Name_init(name))
  IN [H EXCEPT !.scopes[s].names = IF known THEN @ ELSE Put(@, name, name_obj),
               !.nameobjs = [objs EXCEPT ![name_obj] = Name_define(@, node)],
               !.ret = name_obj]

RECURSIVE Mut_lookup_skips_chain(_, _, _)
\* mutant of Scope.lookup_name: a local miss is answered by the root scope,
\* passing over the scopes in between
Mut_lookup_skips_chain(H, s, name) ==
  IF Has(H.scopes[s].names, name)
    THEN [H EXCEPT !.ret = H.scopes[s].names[name]]
  ELSE IF H.scopes[s].parent_scope = None
    THEN LET new == Len(H.nameobjs) + 1 IN
         [H EXCEPT !.scopes[s].names = Put(@, name, new),
                   !.nameobjs = Append(@, Name_init(name)),
                   !.ret = new]
  ELSE Mut_lookup_skips_chain(H, RootId, name)

RECURSIVE Scope_lookup_name(_, _, _)
\* Scope.lookup_name
Scope_lookup_name(H, s, name) ==
  IF Has(H.scopes[s].names, name)
    THEN [H EXCEPT !.ret = H.scopes[s].names[name]]
  ELSE IF H.scopes[s].parent_scope = None
    THEN LET new == Len(H.nameobjs) + 1 IN
         [H EXCEPT !.scopes[s].names = Put(@, name, new),
                   !.nameobjs = Append(@, Name_init(name)),
                   !.ret = new]
  ELSE Scope_lookup_name(H, H.scopes[s].parent_scope, name)

RECURSIVE Join(_)
\* '.'.join(parts)
Join(parts) ==
  IF Len(parts) = 0 THEN ""
  ELSE IF Len(parts) = 1 THEN parts[1]
  ELSE parts[1] \o "." \o Join(Tail(parts))

RECURSIVE AddRefs(_, _, _)
\* the loop `for n in names_to_add' of RootScope.add_external_reference
AddRefs(ext, names_to_add, node) ==
  IF names_to_add = <<>> THEN ext
  ELSE LET n == Head(names_to_add)
           e == IF Has(ext, n) THEN [ext EXCEPT ![n] = Append(@, node)]
                ELSE Put(ext, n, <<node>>)
       IN AddRefs(e, Tail(names_to_add), node)

\* mutant of RootScope.add_external_reference: the packages are not added
Mut_add_reference_no_packages(ext, parts, node, packages) ==
  AddRefs(ext, <<Join(parts)>>, node)

\* RootScope.add_external_reference; `parts' is name.split('.')
Root_add_external_reference(ext, parts, node, packages) ==
  LET names_to_add ==
        <<Join(parts)>> \o
        (IF packages
           THEN [i \in 1..(Len(parts) - 1) |-> Join(SubSeq(parts, 1, i))]
           ELSE <<>>)
  IN AddRefs(ext, names_to_add, node)

RECURSIVE Scope_add_external_reference(_, _, _, _, _, _)
\* Scope.add_external_reference: handed up the chain to the RootScope
Scope_add_external_reference(scs, s, ext, parts, node, packages) ==
  IF scs[s].parent_scope = None
    THEN Root_add_external_reference(ext, parts, node, packages)
    ELSE Scope_add_external_reference(scs, scs[s].parent_scope, ext, parts,
                                      node, packages)

\* RootScope.get_name_for_node
Root_get_name_for_node(n2n, node) == IF Has(n2n, node) THEN n2n[node] ELSE None


(***************************************************************************)
(* The ast classes the model uses, as record constructors.  A dotted name  *)
(* (alias.name, ImportFrom.module) is held as the sequence of its parts;   *)
(* the Python string is Join of it and name.split('.') is the sequence.    *)
(* NoStr is None in a field that otherwise holds a str.                    *)
(***************************************************************************)
NoStr == "<None>"

Module(body) == [type |-> "Module", body |-> body]
Import(names) == [type |-> "Import", names |-> names]
ImportFrom(module, names, level) ==
  [type |-> "ImportFrom", module |-> module, names |-> names, level |-> level]
Alias(name, asname) == [type |-> "alias", name |-> name, asname |-> asname]
Name(id, ctx) == [type |-> "Name", id |-> id, ctx |-> ctx]
Num(n) == [type |-> "Num", n |-> n]
Str(s) == [type |-> "Str", s |-> s]
List(elts) == [type |-> "List", elts |-> elts]
Expr(value) == [type |-> "Expr", value |-> value]
Assign(targets, value) == [type |-> "Assign", targets |-> targets, value |-> value]
Return(value) == [type |-> "Return", value |-> value]
Pass == [type |-> "Pass"]
Global(names) == [type |-> "Global", names |-> names]
If(test, body, orelse) ==
  [type |-> "If", test |-> test, body |-> body, orelse |-> orelse]
While(test, body, orelse) ==
  [type |-> "While", test |-> test, body |-> body, orelse |-> orelse]
\* Python 2: context_expr, optional_vars, body (no `items')
With(context_expr, optional_vars, body) ==
  [type |-> "With", context_expr |-> context_expr,
   optional_vars |-> optional_vars, body |-> body]
TryFinally(body, finalbody) ==
  [type |-> "TryFinally", body |-> body, finalbody |-> finalbody]
\* Python 2: body, handlers, orelse
TryExcept(body, handlers, orelse) ==
  [type |-> "TryExcept", body |-> body, handlers |-> handlers, orelse |-> orelse]
\* Python 3: body, handlers, orelse, finalbody
Try(body, handlers, orelse, finalbody) ==
  [type |-> "Try", body |-> body, handlers |-> handlers, orelse |-> orelse,
   finalbody |-> finalbody]
\* type, name, body; the field `type' of the class is type_ here
ExceptHandler(type_, name, body) ==
  [type |-> "ExceptHandler", type_ |-> type_, name |-> name, body |-> body]
Attribute(value, attr) == [type |-> "Attribute", value |-> value, attr |-> attr]
Call(func, args) == [type |-> "Call", func |-> func, args |-> args, keywords |-> <<>>]
\* Python 3: name, args, body, decorator_list, returns
FunctionDef(name, args, body, decorator_list, returns) ==
  [type |-> "FunctionDef", name |-> name, args |-> args, body |-> body,
   decorator_list |-> decorator_list, returns |-> returns]
\* Python 2: no `returns' field
FunctionDef2(name, args, body, decorator_list) ==
  [type |-> "FunctionDef", name |-> name, args |-> args, body |-> body,
   decorator_list |-> decorator_list]
ClassDef(name, bases, body) ==
  [type |-> "ClassDef", name |-> name, bases |-> bases, keywords |-> <<>>,
   body |-> body, decorator_list |-> <<>>]
\* Python 3: args, vararg, kwonlyargs, kw_defaults, kwarg, defaults
Arguments(args, vararg, kwonlyargs, kwarg, defaults) ==
  [type |-> "arguments", args |-> args, vararg |-> vararg,
   kwonlyargs |-> kwonlyargs, kw_defaults |-> <<>>, kwarg |-> kwarg,
   defaults |-> defaults]
Arg(arg) == [type |-> "arg", arg |-> arg, annotation |-> None]
\* Python 2: args, vararg, kwarg, defaults (vararg and kwarg are str or None)
Arguments2(args, vararg, kwarg, defaults) ==
  [type |-> "arguments", args |-> args, vararg |-> vararg, kwarg |-> kwarg,
   defaults |-> defaults]
\* a Python str object held where a node may be (Python 2 vararg / kwarg)
PyStr(s) == [type |-> "str", s |-> s]

\* ast.AST._fields of each class, restricted to the fields that hold nodes
ChildFields(type) ==
  CASE type = "Module" -> <<"body">>
    [] type \in {"Import", "ImportFrom"} -> <<"names">>
    [] type = "Assign" -> <<"targets", "value">>
    [] type \in {"Expr", "Return", "Attribute"} -> <<"value">>
    [] type \in {"If", "While"} -> <<"test", "body", "orelse">>
    [] type = "TryFinally" -> <<"body", "finalbody">>
    [] type = "With" -> <<"context_expr", "optional_vars", "body">>
    [] type = "TryExcept" -> <<"body", "handlers", "orelse">>
    [] type = "Try" -> <<"body", "handlers", "orelse", "finalbody">>
    [] type = "ExceptHandler" -> <<"type_", "name", "body">>
    [] type = "List" -> <<"elts">>
    [] type = "Call" -> <<"func", "args", "keywords">>
    [] type = "FunctionDef" -> <<"args", "body", "decorator_list", "returns">>
    [] type = "ClassDef" -> <<"bases", "keywords", "body", "decorator_list">>
    [] type = "arguments" ->
         <<"args", "vararg", "kwonlyargs", "kw_defaults", "kwarg", "defaults">>
    [] type = "arg" -> <<"annotation">>
    [] OTHER -> <<>>

\* whether field f of a node of this class holds a list
IsList(type, f) ==
  \/ f \in {"body", "orelse", "finalbody", "handlers", "names", "targets", "elts",
            "keywords", "bases", "decorator_list", "defaults", "kwonlyargs",
            "kw_defaults"}
  \/ f = "args" /\ type \in {"Call", "arguments"}

\* getattr(node, f) as a list of values (a single value is a list of one)
FieldList(node, f) ==
  IF ~Has(node, f) THEN <<>>
  ELSE IF IsList(node.type, f) THEN node[f] ELSE <<node[f]>>

\* isinstance(x, ast.AST)
IsAST(t, x) == x # None /\ t[x].type # "str"

RECURSIVE SelectAST(_, _)
SelectAST(t, s) ==
  IF s = <<>> THEN <<>>
  ELSE (IF IsAST(t, Head(s)) THEN <<Head(s)>> ELSE <<>>) \o SelectAST(t, Tail(s))

RECURSIVE FieldsChildren(_, _, _)
FieldsChildren(t, n, fs) ==
  IF fs = <<>> THEN <<>>
  ELSE SelectAST(t, FieldList(t[n], Head(fs))) \o FieldsChildren(t, n, Tail(fs))

\* the nodes NodeVisitor.generic_visit(node) visits, in order
Children(t, n) == FieldsChildren(t, n, ChildFields(t[n].type))


(***************************************************************************)
(* scope.py: ScopeVisitor.  The recursion of visit() is unfolded into a    *)
(* list of pending tasks (`work'): one step takes the first task.          *)
(*   visit n   : ScopeVisitor.visit(n) up to its first nested visit        *)
(*   restore p : `self._parent = tmp' at the end of visit()                *)
(*   popscope  : the `finally' of visit_FunctionDef / visit_ClassDef       *)
(*   endtry    : the end of one `try' of visit_in_order                    *)
(*   attrpost n: visit_Attribute after its generic_visit                   *)
(* V is the record of the visitor's and the RootScope's fields.            *)
(***************************************************************************)
TVisit(n) == [op |-> "visit", n |-> n]
TRestore(p) == [op |-> "restore", n |-> p]
TPop == [op |-> "popscope", n |-> None]
TEndTry == [op |-> "endtry", n |-> None]
TAttrPost(n) == [op |-> "attrpost", n |-> n]

Visits(ns) == [i \in 1..Len(ns) |-> TVisit(ns[i])]

RECURSIVE InOrderTasks(_, _)
\* ScopeVisitor.visit_in_order(node, *attrs): a missing attribute raises
\* AttributeError inside the try and is passed over
InOrderTasks(node, attrs) ==
  IF attrs = <<>> THEN <<>>
  ELSE (IF Has(node, Head(attrs))
          THEN Visits(FieldList(node, Head(attrs))) \o <<TEndTry>>
          ELSE <<>>)
       \o InOrderTasks(node, Tail(attrs))

\* an AttributeError that no `except' clause ends
Mut_unwind_no_except(w, scs, sc) ==
  [work |-> <<>>, scope |-> sc, verr |-> "AttributeError"]

RECURSIVE Unwind(_, _, _)
\* an AttributeError travelling up the pending calls: `finally' blocks run,
\* the `self._parent = tmp' lines do not, the nearest `except' ends it
Unwind(w, scs, sc) ==
  IF w = <<>> THEN [work |-> <<>>, scope |-> sc, verr |-> "AttributeError"]
  ELSE IF Head(w).op = "endtry"
    THEN [work |-> Tail(w), scope |-> sc, verr |-> "none"]
  ELSE IF Head(w).op = "popscope"
    THEN Unwind(Tail(w), scs, scs[sc].parent_scope)
  ELSE Unwind(Tail(w), scs, sc)

HOf(V) == [scopes |-> V.scopes, nameobjs |-> V.nameobjs, ret |-> None]
WithH(V, H) == [V EXCEPT !.scopes = H.scopes, !.nameobjs = H.nameobjs]

RECURSIVE DefineParts(_, _, _, _)
\* `for part in name_parts[1:]: cur_name = cur_name.lookup_name(part);
\*  cur_name.define(alias)'
DefineParts(H, cur_name, parts, alias) ==
  IF parts = <<>> THEN H
  ELSE LET H1 == Name_lookup_name(H, cur_name, Head(parts))
           H2 == [H1 EXCEPT !.nameobjs[H1.ret] = Name_define(@, alias)]
       IN DefineParts(H2, H1.ret, Tail(parts), alias)

RECURSIVE Import_loop(_, _, _)
\* the loop over node.names of ScopeVisitor.visit_Import
Import_loop(V, t, names) ==
  IF names = <<>> THEN V
  ELSE LET alias == Head(names)
           name_parts == t[alias].name
           ext == Scope_add_external_reference(V.scopes, V.scope,
                    V.external_references, name_parts, alias, TRUE)
           H == IF t[alias].asname \in {NoStr, ""}
                  THEN LET H1 == Scope_define_name(HOf(V), V.scope,
                                                   name_parts[1], alias)
                       IN DefineParts(H1, H1.ret, Tail(name_parts), alias)
                  ELSE Scope_define_name(HOf(V), V.scope, t[alias].asname, alias)
       IN Import_loop([WithH(V, H) EXCEPT !.external_references = ext], t,
                      Tail(names))

RECURSIVE ImportFrom_loop(_, _, _, _)
\* the loop over node.names of ScopeVisitor.visit_ImportFrom
ImportFrom_loop(V, t, node, names) ==
  IF names = <<>> THEN V
  ELSE LET alias == Head(names)
           bound == IF t[alias].asname \in {NoStr, ""}
                      THEN Join(t[alias].name) ELSE t[alias].asname
           H == Scope_define_name(HOf(V), V.scope, bound, alias)
           ext == IF t[node].module # <<>>
                    THEN Scope_add_external_reference(V.scopes, V.scope,
                           V.external_references,
                           t[node].module \o t[alias].name, alias, FALSE)
                    ELSE V.external_references
       IN ImportFrom_loop([WithH(V, H) EXCEPT !.external_references = ext],
                          t, node, Tail(names))

\* ScopeVisitor.visit_ImportFrom before its generic_visit
Visit_ImportFrom(V, t, node) ==
  LET V1 == IF t[node].module # <<>>
              THEN [V EXCEPT !.external_references =
                      Scope_add_external_reference(V.scopes, V.scope, @,
                                                   t[node].module, node, TRUE)]
              ELSE V
  IN ImportFrom_loop(V1, t, node, t[node].names)

\* ScopeVisitor.visit_Name before its generic_visit
Visit_Name(V, t, node) ==
  IF t[node].ctx \in {"Store", "Param"}
    THEN WithH(V, Scope_define_name(HOf(V), V.scope, t[node].id, node))
  ELSE IF t[node].ctx = "Load"
    THEN LET H1 == Scope_lookup_name(HOf(V), V.scope, t[node].id)
             H2 == [H1 EXCEPT !.nameobjs[H1.ret] = Name_add_reference(@, node)]
             H3 == Scope_lookup_name(H2, V.scope, t[node].id)
         IN [WithH(V, H3) EXCEPT !.nodes_to_names = Put(@, node, H3.ret)]
  ELSE V

\* the name of the function or class defined in the scope it opens
Mut_open_defines_inside(V, t, node) ==
  LET new == Len(V.scopes) + 1
      H0 == [HOf(V) EXCEPT !.scopes = Append(@, Scope_init(V.scope))]
      H == Scope_define_name(H0, new, t[node].name, node)
  IN [WithH(V, H) EXCEPT !.scope = new, !.opened = Put(@, node, new)]

\* `self.scope.define_name(node.name, node); self.scope = Scope(self.scope)'
\* of visit_FunctionDef and visit_ClassDef
OpenScope(V, t, node) ==
  LET H == Scope_define_name(HOf(V), V.scope, t[node].name, node)
      new == Len(H.scopes) + 1
  IN [WithH(V, [H EXCEPT !.scopes = Append(@, Scope_init(V.scope))])
        EXCEPT !.scope = new, !.opened = Put(@, node, new)]

\* visit_Attribute without `node_name.add_reference(node)'
Mut_attribute_no_reference(V, t, node) ==
  LET node_value_name == Root_get_name_for_node(V.nodes_to_names, t[node].value)
  IN IF node_value_name # None
       THEN LET H1 == Name_lookup_name(HOf(V), node_value_name, t[node].attr)
            IN [WithH(V, H1) EXCEPT !.nodes_to_names = Put(@, node, H1.ret)]
       ELSE V

\* ScopeVisitor.visit_Attribute after its generic_visit
Visit_Attribute_post(V, t, node) ==
  LET node_value_name == Root_get_name_for_node(V.nodes_to_names, t[node].value)
  IN IF node_value_name # None
       THEN LET H1 == Name_lookup_name(HOf(V), node_value_name, t[node].attr)
                H2 == [H1 EXCEPT !.nameobjs[H1.ret] = Name_add_reference(@, node)]
            IN [WithH(V, H2) EXCEPT !.nodes_to_names = Put(@, node, H1.ret)]
       ELSE V


\* ScopeVisitor.visit(node) for a node that is not None: set_parent, then the
\* visit_<Class> method up to its first nested visit
VisitNode(V, t, n, rest) ==
  LET tmp == V.vparent
      V0 == [V EXCEPT !.parents = Put(@, n, V.vparent), !.vparent = n]
      after == <<TRestore(tmp)>> \o rest
      node == t[n]
      generic == Visits(Children(t, n))
  IN CASE node.type = "str" ->
            \* NodeVisitor.generic_visit reads node._fields: AttributeError
            LET U == Unwind(rest, V0.scopes, V0.scope)
            IN [V0 EXCEPT !.work = U.work, !.scope = U.scope, !.verr = U.verr]
       [] node.type = "Import" ->
            [Import_loop(V0, t, node.names) EXCEPT !.work = generic \o after]
       [] node.type = "ImportFrom" ->
            [Visit_ImportFrom(V0, t, n) EXCEPT !.work = generic \o after]
       [] node.type = "Name" ->
            [Visit_Name(V0, t, n) EXCEPT !.work = generic \o after]
       [] node.type = "FunctionDef" ->
            [OpenScope(V0, t, n) EXCEPT !.work =
               InOrderTasks(node, <<"decorator_list", "args", "returns", "body">>)
               \o <<TPop>> \o after]
       [] node.type = "arguments" ->
            [V0 EXCEPT !.work =
               InOrderTasks(node, <<"defaults", "args", "vararg", "kwarg">>)
               \o after]
       [] node.type = "arg" ->
            [WithH(V0, Scope_define_name(HOf(V0), V0.scope, node.arg, n))
               EXCEPT !.work = generic \o after]
       [] node.type = "ClassDef" ->
            [OpenScope(V0, t, n) EXCEPT !.work = generic \o <<TPop>> \o after]
       [] node.type = "Attribute" ->
            [V0 EXCEPT !.work = generic \o <<TAttrPost(n)>> \o after]
       [] OTHER -> [V0 EXCEPT !.work = generic \o after]

\* one step of the traversal: the first pending task
VStep(V, t) ==
  LET task == Head(V.work)
      rest == Tail(V.work)
  IN CASE task.op = "restore" -> [V EXCEPT !.vparent = task.n, !.work = rest]
       [] task.op = "popscope" ->
            [V EXCEPT !.scope = V.scopes[V.scope].parent_scope, !.work = rest]
       [] task.op = "endtry" -> [V EXCEPT !.work = rest]
       [] task.op = "attrpost" ->
            [Visit_Attribute_post(V, t, task.n) EXCEPT !.work = rest]
       [] task.op = "visit" ->
            IF task.n = None THEN [V EXCEPT !.work = rest]
            ELSE VisitNode(V, t, task.n, rest)

\* ScopeVisitor.__init__ followed by the call v.visit(tree) of analyze()
VInit == [scopes |-> <<Scope_init(None)>>, nameobjs |-> <<>>, scope |-> RootId,
          vparent |-> None, parents |-> EmptyFn,
          external_references |-> EmptyFn, nodes_to_names |-> EmptyFn,
          work |-> <<TVisit(1)>>, verr |-> "none", opened |-> EmptyFn]

RECURSIVE VRun(_, _)
\* the whole of v.visit(tree)
VRun(V, t) == IF V.work = <<>> THEN V ELSE VRun(VStep(V, t), t)

\* analyze(tree): the visitor's fields when it returns (it returns v.scope)
analyze(t) == VRun(VInit, t)

VNow == [scopes |-> scopes, nameobjs |-> nameobjs, scope |-> scope,
         vparent |-> vparent, parents |-> parents,
         external_references |-> external_references,
         nodes_to_names |-> nodes_to_names, work |-> work, verr |-> verr,
         opened |-> opened]

SetV(V) ==
  /\ scopes' = V.scopes
  /\ nameobjs' = V.nameobjs
  /\ scope' = V.scope
  /\ vparent' = V.vparent
  /\ parents' = V.parents
  /\ external_references' = V.external_references
  /\ nodes_to_names' = V.nodes_to_names
  /\ work' = V.work
  /\ verr' = V.verr
  /\ opened' = V.opened

NoFmtInit ==
  /\ source = <<>>
  /\ fmt = EmptyFn
  /\ cursor = 0
  /\ parens = 0
  /\ code = ""
  /\ emitted = EmptyFn
  /\ tree0 = <<>>

NoLog == [op |-> "none"]


(***************************************************************************)
(* The trees handed to analyze(): what ast.parse gives for the source in   *)
(* the comment.  Node 1 is the Module.                                     *)
(***************************************************************************)
\* x = 1 / def f(x): return x / x                               (Python 3)
T_shadow ==
  << Module(<<2, 5, 10>>), Assign(<<3>>, 4), Name("x", "Store"), Num(1),
     FunctionDef("f", 6, <<8>>, <<>>, None),
     Arguments(<<7>>, None, <<>>, None, <<>>), Arg("x"),
     Return(9), Name("x", "Load"), Expr(11), Name("x", "Load") >>

\* x = 1 / def f(x): return x / x      (Python 2: parameters are Param Names)
T_shadow_py2 ==
  << Module(<<2, 5, 10>>), Assign(<<3>>, 4), Name("x", "Store"), Num(1),
     FunctionDef2("f", 6, <<8>>, <<>>),
     Arguments2(<<7>>, None, None, <<>>), Name("x", "Param"),
     Return(9), Name("x", "Load"), Expr(11), Name("x", "Load") >>

\* x = 1 / def f(*x): return x / x                              (Python 3)
T_shadow_vararg ==
  << Module(<<2, 5, 10>>), Assign(<<3>>, 4), Name("x", "Store"), Num(1),
     FunctionDef("f", 6, <<8>>, <<>>, None),
     Arguments(<<>>, 7, <<>>, None, <<>>), Arg("x"),
     Return(9), Name("x", "Load"), Expr(11), Name("x", "Load") >>

\* x = 1 / def f(*, x): return x / x         (Python 3, keyword-only parameter)
T_shadow_kwonly ==
  << Module(<<2, 5, 10>>), Assign(<<3>>, 4), Name("x", "Store"), Num(1),
     FunctionDef("f", 6, <<8>>, <<>>, None),
     Arguments(<<>>, None, <<7>>, None, <<>>), Arg("x"),
     Return(9), Name("x", "Load"), Expr(11), Name("x", "Load") >>

\* x = 1 / def f(a, *x): return x / x        (Python 2: vararg is the str 'x')
T_shadow_vararg_py2 ==
  << Module(<<2, 5, 10>>), Assign(<<3>>, 4), Name("x", "Store"), Num(1),
     FunctionDef2("f", 6, <<8>>, <<>>),
     Arguments2(<<7>>, 12, None, <<>>), Name("a", "Param"),
     Return(9), Name("x", "Load"), Expr(11), Name("x", "Load"), PyStr("x") >>

\* import aaa.bbb / aaa.bbb
T_import_dotted ==
  << Module(<<2, 4>>), Import(<<3>>), Alias(<<"aaa", "bbb">>, NoStr),
     Expr(5), Attribute(6, "bbb"), Name("aaa", "Load") >>

\* def f(): import p.q.r ; import m as n
T_import_nested ==
  << Module(<<2>>), FunctionDef("f", 3, <<4, 6>>, <<>>, None),
     Arguments(<<>>, None, <<>>, None, <<>>),
     Import(<<5>>), Alias(<<"p", "q", "r">>, NoStr),
     Import(<<7>>), Alias(<<"m">>, "n") >>

\* from aaa import bbb as c, ddd / from . import e / class K(c): y = ddd
T_import_from ==
  << Module(<<2, 5, 7>>),
     ImportFrom(<<"aaa">>, <<3, 4>>, 0), Alias(<<"bbb">>, "c"),
     Alias(<<"ddd">>, NoStr),
     ImportFrom(<<>>, <<6>>, 1), Alias(<<"e">>, NoStr),
     ClassDef("K", <<8>>, <<9>>), Name("c", "Load"),
     Assign(<<10>>, 11), Name("y", "Store"), Name("ddd", "Load") >>

\* def f(): / def g(): return x / x = 1 / def h(): return x
T_nested ==
  << Module(<<2>>), FunctionDef("f", 3, <<4, 8, 11>>, <<>>, None),
     Arguments(<<>>, None, <<>>, None, <<>>),
     FunctionDef("g", 5, <<6>>, <<>>, None),
     Arguments(<<>>, None, <<>>, None, <<>>),
     Return(7), Name("x", "Load"),
     Assign(<<9>>, 10), Name("x", "Store"), Num(1),
     FunctionDef("h", 12, <<13>>, <<>>, None),
     Arguments(<<>>, None, <<>>, None, <<>>),
     Return(14), Name("x", "Load") >>

\* x = 1 / @x / def f(x=x): return x
T_default ==
  << Module(<<2, 5>>), Assign(<<3>>, 4), Name("x", "Store"), Num(1),
     FunctionDef("f", 6, <<9>>, <<11>>, None),
     Arguments(<<7>>, None, <<>>, None, <<8>>), Arg("x"), Name("x", "Load"),
     Return(10), Name("x", "Load"), Name("x", "Load") >>

\* x / x = 1 / x = 2 / x
T_read_first ==
  << Module(<<2, 4, 7, 10>>), Expr(3), Name("x", "Load"),
     Assign(<<5>>, 6), Name("x", "Store"), Num(1),
     Assign(<<8>>, 9), Name("x", "Store"), Num(2),
     Expr(11), Name("x", "Load") >>

\* import aaa.bbb / aaa.bbb.c / aaa.bbb.c / f().d
T_attr_chain ==
  << Module(<<2, 4, 8, 12>>), Import(<<3>>), Alias(<<"aaa", "bbb">>, NoStr),
     Expr(5), Attribute(6, "c"), Attribute(7, "bbb"), Name("aaa", "Load"),
     Expr(9), Attribute(10, "c"), Attribute(11, "bbb"), Name("aaa", "Load"),
     Expr(13), Attribute(14, "d"), Call(15, <<>>), Name("f", "Load") >>

\* class A: / def m(self): / class B(u): v = w
T_class_nested ==
  << Module(<<2>>), ClassDef("A", <<>>, <<3>>),
     FunctionDef("m", 4, <<6>>, <<>>, None),
     Arguments(<<5>>, None, <<>>, None, <<>>), Arg("self"),
     ClassDef("B", <<7>>, <<8>>), Name("u", "Load"),
     Assign(<<9>>, 10), Name("v", "Store"), Name("w", "Load") >>

\* def f(*a, **k): return k        (Python 2: vararg and kwarg are str objects)
T_kwargs_py2 ==
  << Module(<<2>>), FunctionDef2("f", 3, <<4>>, <<>>),
     Arguments2(<<>>, 6, 7, <<>>), Return(5), Name("k", "Load"),
     PyStr("a"), PyStr("k") >>

\* import aaa.bbb, aaa.ccc / import aaa / aaa
T_import_twice ==
  << Module(<<2, 5, 7>>), Import(<<3, 4>>), Alias(<<"aaa", "bbb">>, NoStr),
     Alias(<<"aaa", "ccc">>, NoStr), Import(<<6>>), Alias(<<"aaa">>, NoStr),
     Expr(8), Name("aaa", "Load") >>

\* x = 1 / def f(*, x=x): return x          (Python 3, keyword-only default)
T_kwonly_default ==
  << Module(<<2, 5>>), Assign(<<3>>, 4), Name("x", "Store"), Num(1),
     FunctionDef("f", 6, <<9>>, <<>>, None),
     [Arguments(<<>>, None, <<7>>, None, <<>>) EXCEPT !.kw_defaults = <<8>>],
     Arg("x"), Name("x", "Load"), Return(10), Name("x", "Load") >>

\* @d / def f(y=z, z=1): return z            (d and z are bound nowhere else)
T_default_unbound ==
  << Module(<<2>>), FunctionDef("f", 3, <<8>>, <<10>>, None),
     Arguments(<<4, 5>>, None, <<>>, None, <<6, 7>>), Arg("y"), Arg("z"),
     Name("z", "Load"), Num(1), Return(9), Name("z", "Load"),
     Name("d", "Load") >>

ScopeCorpus ==
  << T_shadow, T_shadow_py2, T_shadow_vararg, T_shadow_kwonly,
     T_shadow_vararg_py2, T_import_dotted, T_import_nested, T_import_from,
     T_nested, T_default, T_read_first, T_attr_chain, T_class_nested,
     T_kwargs_py2, T_import_twice, T_kwonly_default, T_default_unbound >>

(***************************************************************************)
(* SpecScope: analyze(tree) on a tree of the corpus, one step of the       *)
(* traversal at a time.                                                    *)
(***************************************************************************)
InitScope ==
  /\ \E i \in 1..Len(ScopeCorpus) : tree = ScopeCorpus[i]
  /\ pc = "analyze"
  /\ scopes = VInit.scopes
  /\ nameobjs = VInit.nameobjs
  /\ scope = VInit.scope
  /\ vparent = VInit.vparent
  /\ parents = VInit.parents
  /\ external_references = VInit.external_references
  /\ nodes_to_names = VInit.nodes_to_names
  /\ work = VInit.work
  /\ verr = VInit.verr
  /\ opened = VInit.opened
  /\ log = NoLog
  /\ NoFmtInit

\* one step of v.visit(tree)
AnalyzeStep ==
  /\ pc = "analyze"
  /\ work # <<>>
  /\ SetV(VStep(VNow, tree))
  /\ log' = [op |-> "step", task |-> Head(work)]
  /\ UNCHANGED <<tree, pc>>
  /\ UNCHANGED fmtVars

\* `return v.scope'
AnalyzeReturn ==
  /\ pc = "analyze"
  /\ work = <<>>
  /\ pc' = "analyzed"
  /\ log' = [op |-> "return", sc |-> scope]
  /\ UNCHANGED <<tree>>
  /\ UNCHANGED scopeVars
  /\ UNCHANGED fmtVars

NextScope == AnalyzeStep \/ AnalyzeReturn

SpecScope == InitScope /\ [][NextScope]_vars


(***************************************************************************)
(* SpecNames: the Scope objects driven the way ScopeVisitor drives them    *)
(* (a child scope is opened on the current one and left again, names are   *)
(* defined in the current scope), with lookup_name called on any scope of  *)
(* the current chain.  `log' records the last call and, as history, the    *)
(* Name that the first unbound lookup of each identifier created.          *)
(***************************************************************************)
Ids == {"x", "y"}

RECURSIVE Chain(_, _)
\* a scope and its enclosing scopes, innermost first
Chain(scs, s) ==
  IF s = None THEN <<>> ELSE <<s>> \o Chain(scs, scs[s].parent_scope)

RECURSIVE FirstBinder(_, _, _)
\* the first scope of a chain that binds id; None when none does
FirstBinder(scs, chain, id) ==
  IF chain = <<>> THEN None
  ELSE IF Has(scs[Head(chain)].names, id) THEN Head(chain)
  ELSE FirstBinder(scs, Tail(chain), id)

InitNames ==
  /\ tree = <<>>
  /\ pc = "api"
  /\ scopes = <<Scope_init(None)>>
  /\ nameobjs = <<>>
  /\ scope = RootId
  /\ vparent = None
  /\ parents = EmptyFn
  /\ external_references = EmptyFn
  /\ nodes_to_names = EmptyFn
  /\ work = <<>>
  /\ verr = "none"
  /\ opened = EmptyFn
  /\ log = [op |-> "none", count |-> 0, implicit |-> EmptyFn]
  /\ NoFmtInit

ApiFrame ==
  /\ UNCHANGED <<tree, pc, vparent, parents, external_references,
                 nodes_to_names, work, verr, opened>>
  /\ UNCHANGED fmtVars

\* self.scope = Scope(self.scope)
ApiOpenScope ==
  /\ log.count < MaxOps
  /\ Len(scopes) < MaxScopes
  /\ scopes' = Append(scopes, Scope_init(scope))
  /\ scope' = Len(scopes) + 1
  /\ log' = [op |-> "open", count |-> log.count + 1, implicit |-> log.implicit]
  /\ UNCHANGED nameobjs
  /\ ApiFrame

\* self.scope = self.scope.parent_scope
ApiLeaveScope ==
  /\ log.count < MaxOps
  /\ scopes[scope].parent_scope # None
  /\ scope' = scopes[scope].parent_scope
  /\ log' = [op |-> "leave", count |-> log.count + 1, implicit |-> log.implicit]
  /\ UNCHANGED <<scopes, nameobjs>>
  /\ ApiFrame

\* self.scope.define_name(id, node), the node being a new one
ApiDefine ==
  /\ log.count < MaxOps
  /\ \E id \in Ids :
       LET H == Scope_define_name([scopes |-> scopes, nameobjs |-> nameobjs,
                                   ret |-> None], scope, id, log.count + 1)
       IN /\ scopes' = H.scopes
          /\ nameobjs' = H.nameobjs
          /\ log' = [op |-> "define", count |-> log.count + 1,
                     implicit |-> log.implicit, s |-> scope, id |-> id,
                     ret |-> H.ret]
  /\ UNCHANGED scope
  /\ ApiFrame

\* s.lookup_name(id) for a scope s of the current chain
ApiLookup ==
  /\ log.count < MaxOps
  /\ \E id \in Ids :
     \E k \in 1..Len(Chain(scopes, scope)) :
       LET s == Chain(scopes, scope)[k]
           H == Scope_lookup_name([scopes |-> scopes, nameobjs |-> nameobjs,
                                   ret |-> None], s, id)
           binder == FirstBinder(scopes, Chain(scopes, s), id)
       IN /\ scopes' = H.scopes
          /\ nameobjs' = H.nameobjs
          /\ log' = [op |-> "lookup", count |-> log.count + 1,
                     implicit |-> IF binder = None
                                    THEN Put(log.implicit, id, H.ret)
                                    ELSE log.implicit,
                     implicit_before |-> log.implicit,
                     s |-> s, id |-> id, ret |-> H.ret, binder |-> binder,
                     pre_scopes |-> scopes, pre_names |-> Len(nameobjs)]
  /\ UNCHANGED scope
  /\ ApiFrame

NextNames == ApiOpenScope \/ ApiLeaveScope \/ ApiDefine \/ ApiLookup

SpecNames == InitNames /\ [][NextNames]_vars


(***************************************************************************)
(* Claims about the scope resolver.                                        *)
(***************************************************************************)
NodeIds(t) == 1..Len(t)

RECURSIVE DescOfList(_, _)
RECURSIVE Descendants(_, _)
\* a node and every node below it
Descendants(t, n) == {n} \cup DescOfList(t, Children(t, n))
DescOfList(t, ns) ==
  IF ns = <<>> THEN {} ELSE Descendants(t, Head(ns)) \cup DescOfList(t, Tail(ns))

SeqToSet(sq) == {sq[i] : i \in 1..Len(sq)}

\* the parameter declarations of a function definition, of every kind
ParamNodes(t, f) ==
  LET a == t[t[f].args]
  IN (SeqToSet(a.args) \cup {a.vararg, a.kwarg}
      \cup (IF Has(a, "kwonlyargs") THEN SeqToSet(a.kwonlyargs) ELSE {}))
     \ {None}

\* the identifier a parameter declaration declares
ParamId(t, p) ==
  CASE t[p].type = "arg" -> t[p].arg
    [] t[p].type = "Name" -> t[p].id
    [] t[p].type = "str" -> t[p].s

FunctionDefs(t) == {n \in NodeIds(t) : t[n].type = "FunctionDef"}
Reads(t, id) ==
  {n \in NodeIds(t) : t[n].type = "Name" /\ t[n].ctx = "Load" /\ t[n].id = id}
BodyNodes(t, f) == DescOfList(t, t[f].body)

\* the name is bound at module scope by a statement of the module
DefinedAtModule(id) ==
  /\ Has(scopes[RootId].names, id)
  /\ nameobjs[scopes[RootId].names[id]].definition # None

\* C8 (the claim as stated): with x defined at module scope and declared as a
\* parameter of a function, every read of x in the function's body resolves to
\* the Name of the function's own scope, whose definition is the parameter,
\* every read outside the function resolves to the module-level Name, and the
\* two Names are distinct.
CE_C8_ScopeShadowing ==
  pc = "analyzed" =>
    \A f \in FunctionDefs(tree) : \A p \in ParamNodes(tree, f) :
      LET id == ParamId(tree, p) IN
      DefinedAtModule(id) =>
        /\ Has(scopes[opened[f]].names, id)
        /\ scopes[opened[f]].names[id] # scopes[RootId].names[id]
        /\ nameobjs[scopes[opened[f]].names[id]].definition = p
        /\ \A r \in Reads(tree, id) :
             /\ r \in BodyNodes(tree, f) =>
                  nodes_to_names[r] = scopes[opened[f]].names[id]
             /\ r \notin Descendants(tree, f) =>
                  nodes_to_names[r] = scopes[RootId].names[id]

ImportNodes(t) == {n \in NodeIds(t) : t[n].type = "Import"}

\* the keys of the dotted prefixes p1, p1.p2, ..., p1...pk of a name
PrefixKeys(parts) == {Join(SubSeq(parts, 1, i)) : i \in 1..Len(parts)}

\* whether every dotted prefix of every plain import has an entry holding ref(n, a),
\* n the Import statement and a the alias
PrefixesIndexed(ref(_, _)) ==
  \A n \in ImportNodes(tree) : \A k \in 1..Len(tree[n].names) :
    LET a == tree[n].names[k] IN
    \A key \in PrefixKeys(tree[a].name) :
      /\ Has(external_references, key)
      /\ InSeq(external_references[key], ref(n, a))

TheImport(n, a) == n
TheAlias(n, a) == a

\* C9 (the claim as stated): after analyze, every dotted prefix of an imported
\* name is a key of external_references and its entry references the Import
\* node.
CE_C9_ImportNodeIndexed ==
  pc = "analyzed" => PrefixesIndexed(TheImport)

\* C9 (amended): after analyze, in whatever scope the import occurs, every
\* dotted prefix of an imported name is a key of external_references and its
\* entry references the alias node of that name; for `import aaa.bbb' the keys
\* "aaa" and "aaa.bbb" both exist and hold the alias.
Thm_C9_PrefixesIndexed ==
  pc = "analyzed" =>
    /\ PrefixesIndexed(TheAlias)
    /\ tree = T_import_dotted =>
         /\ Has(external_references, "aaa") /\ Has(external_references, "aaa.bbb")
         /\ external_references["aaa"] = <<3>>
         /\ external_references["aaa.bbb"] = <<3>>

\* an import of a three-part name inside a function has been analyzed
Wit_C9 ==
  /\ pc = "analyzed"
  /\ tree = T_import_nested
  /\ Has(external_references, "p.q")
  /\ scopes[opened[2]].names # EmptyFn

\* the scopes of the chain of s below the root
InnerChain(scs, s) == {c \in SeqToSet(Chain(scs, s)) : scs[c].parent_scope # None}

\* C10 (the claim as stated, last clause): once an unbound lookup has created
\* the root Name of id, every later lookup_name(id) from a scope that does not
\* bind id locally returns that same Name.
CE_C10_LaterLookupsSameName ==
  (log.op = "lookup" /\ Has(log.implicit_before, log.id)
     /\ ~Has(log.pre_scopes[log.s].names, log.id))
  => log.ret = log.implicit_before[log.id]

\* C10 (amended): lookup_name(id) returns the Name bound to id in the nearest
\* enclosing scope that binds it; if no scope up to and including the root
\* binds id, a new Name is created in the root scope and in no other scope;
\* and every later lookup_name(id) from a scope none of whose enclosing scopes
\* below the root binds id returns that same Name.
Thm_C10_ImplicitRootDefinition ==
  log.op = "lookup" =>
    /\ log.binder # None =>
         /\ log.ret = log.pre_scopes[log.binder].names[log.id]
         /\ scopes = log.pre_scopes
         /\ Len(nameobjs) = log.pre_names
    /\ log.binder = None =>
         /\ log.ret = log.pre_names + 1
         /\ Len(nameobjs) = log.pre_names + 1
         /\ nameobjs[log.ret] = Name_init(log.id)
         /\ scopes[RootId].names = Put(log.pre_scopes[RootId].names, log.id, log.ret)
         /\ \A c \in 1..Len(scopes) : c # RootId => scopes[c] = log.pre_scopes[c]
    /\ (Has(log.implicit_before, log.id)
        /\ \A c \in InnerChain(log.pre_scopes, log.s) :
             ~Has(log.pre_scopes[c].names, log.id))
       => log.ret = log.implicit_before[log.id]

\* a lookup from a nested scope returned the Name an earlier unbound lookup
\* had created at the root, although an unrelated scope binds the identifier
Wit_C10 ==
  /\ log.op = "lookup"
  /\ log.s # RootId
  /\ Has(log.implicit_before, log.id)
  /\ log.ret = log.implicit_before[log.id]
  /\ log.binder = RootId
  /\ \E c \in 1..Len(scopes) : c # RootId /\ Has(scopes[c].names, log.id)

\* C11: the Scope Resolver never fails.  From every state of a run of
\* analyze(tree) on a well-formed tree the traversal terminates without an
\* exception leaving v.visit(tree), and analyze returns a scope object,
\* whatever names are undefined, however functions and classes nest, and
\* whatever forms of import the tree holds.
Thm_C11_ResolverNeverFails ==
  /\ verr = "none"
  /\ pc = "analyze" =>
       LET R == VRun(VNow, tree)
       IN /\ R.work = <<>>
          /\ R.verr = "none"
          /\ R.scope \in 1..Len(R.scopes)
  /\ pc = "analyzed" => (work = <<>> /\ scope \in 1..Len(scopes))

\* analyze has returned on a Python 2 tree whose vararg and kwarg are str
\* objects: both were handed to visit(), which raised AttributeError inside
\* visit_in_order
Wit_C11 ==
  /\ pc = "analyzed"
  /\ tree = T_kwargs_py2
  /\ Has(parents, 6) /\ Has(parents, 7)
  /\ verr = "none"

\* the node one of whose child fields holds n (None for the root)
SyntacticParent(t, n) ==
  IF \E p \in NodeIds(t) : InSeq(Children(t, p), n)
    THEN CHOOSE p \in NodeIds(t) : InSeq(Children(t, p), n)
    ELSE None

\* C12 (the claim as stated): after analyze(tree) the parent index has an
\* entry for every node of the tree, the entry of the root is None and the
\* entry of every other node is its syntactic parent, including the nodes
\* below function definitions and their argument lists.
CE_C12_ParentIndexComplete ==
  pc = "analyzed" =>
    \A n \in NodeIds(tree) :
      IsAST(tree, n) =>
        /\ Has(parents, n)
        /\ parents[n] = SyntacticParent(tree, n)

\* the scopes on the current scope's parent chain below the root
ScopeDepth == Len(Chain(scopes, scope)) - 1

\* the FunctionDef and ClassDef visits in progress: each has its `finally'
\* pending
VisitsInProgress == Len(SelectSeq(work, LAMBDA task : task.op = "popscope"))

\* the nodes a scope's Names hold as definition or reference
NodesOfScope(s) ==
  UNION { {nameobjs[scopes[s].names[k]].definition}
          \cup SeqToSet(nameobjs[scopes[s].names[k]].reads)
          : k \in DOMAIN scopes[s].names }

\* C19: scope stack discipline.  While analyze runs, the number of scopes on
\* the current scope's parent chain below the root equals the number of
\* FunctionDef and ClassDef visits in progress; a function or class that has
\* been entered is named in the scope enclosing the scope it opened and not,
\* by its own visit, in the scope it opened; an exception raised by the visit
\* of a child pops every scope pushed below its handler; and when analyze
\* returns the current scope is the root scope, which is the object returned.
Thm_C19_ScopeStackDiscipline ==
  /\ pc = "analyze" => ScopeDepth = VisitsInProgress
  /\ \A f \in DOMAIN opened :
       LET encl == scopes[opened[f]].parent_scope IN
       /\ encl # None
       /\ Has(scopes[encl].names, tree[f].name)
       /\ f \in NodesOfScope(encl)
       /\ f \notin NodesOfScope(opened[f])
  /\ pc = "analyze" =>
       \* were the visit under way to raise here, every scope pushed between
       \* this point and the handler would be popped by its `finally'
       LET U == Unwind(work, scopes, scope)
       IN Len(Chain(scopes, U.scope)) - 1
            = Len(SelectSeq(U.work, LAMBDA task : task.op = "popscope"))
  /\ pc = "analyzed" =>
       /\ scope = RootId
       /\ log.sc = RootId
       /\ scopes[scope].parent_scope = None

\* three visits are in progress, a class in a method in a class, and three
\* scopes are stacked below the root
Wit_C19 ==
  /\ pc = "analyze"
  /\ tree = T_class_nested
  /\ VisitsInProgress = 3
  /\ ScopeDepth = 3
  /\ scopes[scope].parent_scope = opened[3]
  /\ Unwind(work, scopes, scope).scope = opened[3]

AttributeNodes(t) == {n \in NodeIds(t) : t[n].type = "Attribute"}

\* the nodes some Name holds as definition or reference
NodesOfNames ==
  UNION { {nameobjs[k].definition} \cup SeqToSet(nameobjs[k].reads)
          : k \in 1..Len(nameobjs) }

\* C20: attribute-chain resolution.  After analyze, an attribute access whose
\* base expression has a resolved Name N is mapped to the nested Name
\* N.attrs[attr] and is among that Name's references, so two accesses of the
\* same attribute of the same Name are mapped to one Name; after
\* `import aaa.bbb' a read of aaa.bbb is mapped to the Name the import defined
\* for bbb under aaa; an access whose base has no resolved Name is mapped to
\* no Name and is referenced by none.
Thm_C20_AttributeChain ==
  pc = "analyzed" =>
    /\ \A n \in AttributeNodes(tree) :
         LET base == tree[n].value IN
         IF Has(nodes_to_names, base)
           THEN /\ Has(nameobjs[nodes_to_names[base]].attrs, tree[n].attr)
                /\ Has(nodes_to_names, n)
                /\ nodes_to_names[n]
                     = nameobjs[nodes_to_names[base]].attrs[tree[n].attr]
                /\ InSeq(nameobjs[nodes_to_names[n]].reads, n)
           ELSE /\ ~Has(nodes_to_names, n)
                /\ n \notin NodesOfNames
    /\ tree = T_import_dotted =>
         LET aaa == scopes[RootId].names["aaa"]
             bbb == nameobjs[aaa].attrs["bbb"]
         IN /\ nodes_to_names[5] = bbb
            /\ nameobjs[bbb].definition = 3
            /\ nameobjs[bbb].reads = <<5>>
    /\ tree = T_attr_chain =>
         /\ nodes_to_names[5] = nodes_to_names[9]
         /\ nameobjs[nodes_to_names[5]].reads = <<5, 9>>
         /\ nameobjs[nodes_to_names[5]].definition = None

\* aaa.bbb.c has been resolved twice through the Name that `import aaa.bbb'
\* defined, and f().d, whose base is a call, has been left unmapped
Wit_C20 ==
  /\ pc = "analyzed"
  /\ tree = T_attr_chain
  /\ nodes_to_names[6] = nodes_to_names[10]
  /\ nameobjs[nodes_to_names[6]].definition = 3
  /\ Has(nodes_to_names, 9)
  /\ ~Has(nodes_to_names, 13)

IsPrefix(a, b) == Len(a) <= Len(b) /\ SubSeq(b, 1, Len(a)) = a

RECURSIVE IsSubSeq(_, _)
\* a is b with some entries left out
IsSubSeq(a, b) ==
  IF a = <<>> THEN TRUE
  ELSE IF b = <<>> THEN FALSE
  ELSE IF Head(a) = Head(b) THEN IsSubSeq(Tail(a), Tail(b))
  ELSE IsSubSeq(a, Tail(b))

\* the Name object k before the step being taken: a Name made by the step
\* starts as Name.__init__ leaves it
NameBefore(k) ==
  IF k <= Len(nameobjs) THEN nameobjs[k] ELSE Name_init(nameobjs'[k].id)

\* the nodes the step being taken has passed to define() or add_reference()
\* of the Name object k, in the order of the calls
PassedTo(k) ==
  (IF NameBefore(k).definition = None /\ nameobjs'[k].definition # None
     THEN <<nameobjs'[k].definition>> ELSE <<>>)
  \o SubSeq(nameobjs'[k].reads, Len(NameBefore(k).reads) + 1,
            Len(nameobjs'[k].reads))

\* the nodes the task hands to define() (writers) and to add_reference()
\* (readers), in the order of the code
WritersOfTask(t, task) ==
  IF task.op # "visit" \/ task.n = None THEN <<>>
  ELSE IF t[task.n].type \in {"Import", "ImportFrom"} THEN t[task.n].names
  ELSE IF t[task.n].type \in {"FunctionDef", "ClassDef", "arg"} THEN <<task.n>>
  ELSE IF t[task.n].type = "Name" /\ t[task.n].ctx \in {"Store", "Param"}
    THEN <<task.n>>
  ELSE <<>>

ReadersOfTask(t, task) ==
  IF task.op = "attrpost" THEN <<task.n>>
  ELSE IF task.op = "visit" /\ task.n # None /\ t[task.n].type = "Name"
          /\ t[task.n].ctx = "Load"
    THEN <<task.n>>
  ELSE <<>>

\* C21: first-writer invariant of Name.  In every step of analyze, for every
\* Name: a definition that is set stays; the references before the step are
\* a prefix of the references after it; a reader is appended to the
\* references of one Name and never becomes its definition, also when the
\* Name has no definition; a writer becomes the definition of a Name that
\* has none, references recorded or not, and is appended to the references
\* of a Name that has one.  So for `x / x = 1 / x = 2 / x' the definition of
\* x is the first assignment and its references are the first read, the
\* second assignment and the last read, in that order.
Thm_C21_FirstWriter ==
  /\ [][pc = "analyze" /\ work # <<>> =>
         /\ Len(nameobjs) <= Len(nameobjs')
         /\ \A k \in 1..Len(nameobjs') :
              LET old == NameBefore(k)
                  new == nameobjs'[k]
                  task == Head(work)
                  writers == WritersOfTask(tree, task)
                  readers == ReadersOfTask(tree, task)
              IN /\ new.id = old.id
                 /\ old.definition # None => new.definition = old.definition
                 /\ IsPrefix(old.reads, new.reads)
                 /\ IsSubSeq(PassedTo(k), writers \o readers)
                 /\ new.definition # old.definition =>
                      /\ writers # <<>>
                      /\ new.definition = PassedTo(k)[1]
                 /\ (old.definition = None /\ writers # <<>>
                       /\ new.reads # old.reads) =>
                      new.definition # None
                 /\ readers # <<>> =>
                      /\ new.definition = old.definition
                      /\ new.reads \in {old.reads, Append(old.reads, readers[1])}
         /\ LET task == Head(work)
                single == IF task.op = "visit" /\ task.n # None
                             /\ tree[task.n].type \notin {"Import", "ImportFrom"}
                            THEN WritersOfTask(tree, task)
                                 \o ReadersOfTask(tree, task)
                            ELSE <<>>
            IN single # <<>> =>
                 Cardinality({k \in 1..Len(nameobjs') : PassedTo(k) = single}) = 1
      ]_vars
  /\ [](pc = "analyzed" /\ tree = T_read_first =>
         nameobjs[scopes[RootId].names["x"]]
           = [id |-> "x", definition |-> 5, reads |-> <<3, 8, 11>>,
              attrs |-> EmptyFn])
  /\ [](pc = "analyzed" /\ tree = T_import_twice =>
         /\ nameobjs[scopes[RootId].names["aaa"]].definition = 3
         /\ nameobjs[scopes[RootId].names["aaa"]].reads = <<4, 6, 8>>)

\* x has been read, then written twice, then read again
Wit_C21 ==
  /\ pc = "analyzed"
  /\ tree = T_read_first
  /\ nameobjs[scopes[RootId].names["x"]].definition = 5
  /\ Len(nameobjs[scopes[RootId].names["x"]].reads) = 3
  /\ nameobjs[scopes[RootId].names["x"]].reads[1] = 3

\* the nodes of the decorators and of the default expressions of a function
HeadNodes(t, f) ==
  LET a == t[t[f].args]
  IN DescOfList(t, t[f].decorator_list) \cup DescOfList(t, a.defaults)
     \cup (IF Has(a, "kw_defaults") THEN DescOfList(t, a.kw_defaults) ELSE {})

\* the Name that id denotes in the scopes enclosing the scope s; None when
\* no enclosing scope binds it
EnclosingName(s, id) ==
  LET b == FirstBinder(scopes, Chain(scopes, scopes[s].parent_scope), id)
  IN IF b = None THEN None ELSE scopes[b].names[id]

\* C22 (the claim as stated): after analyze, for every parameter of a
\* function, a read of the parameter's identifier in a decorator or in a
\* default expression of that function is resolved, to the Name the
\* enclosing scopes hold for the identifier (the root's when no scope binds
\* it) and not to the Name of the function's scope, and a read in the body
\* is resolved to the Name of the function's scope, whose definition is the
\* parameter.
CE_C22_FunctionVisitOrder ==
  pc = "analyzed" =>
    \A f \in FunctionDefs(tree) : \A p \in ParamNodes(tree, f) :
      LET id == ParamId(tree, p)
          fs == opened[f]
      IN \A r \in Reads(tree, id) :
           /\ r \in HeadNodes(tree, f) =>
                /\ Has(nodes_to_names, r)
                /\ EnclosingName(fs, id) # None
                /\ nodes_to_names[r] = EnclosingName(fs, id)
                /\ Has(scopes[fs].names, id) =>
                     nodes_to_names[r] # scopes[fs].names[id]
           /\ r \in BodyNodes(tree, f) =>
                /\ Has(scopes[fs].names, id)
                /\ nodes_to_names[r] = scopes[fs].names[id]
                /\ nameobjs[nodes_to_names[r]].definition = p



(***************************************************************************)
(* annotate.py.  BaseVisitor is one traversal used twice: by AstAnnotator  *)
(* (mode "annotate": the source tokens are consumed and the text is stored *)
(* on the nodes) and by the code generator (mode "print": the text is      *)
(* written out).  The traversal state is the record                        *)
(*   st = [mode, t, toks, i, parens, fmt, code, emitted, printed, err, ret]*)
(* t the tree, toks/i/parens the TokenGenerator, fmt the properties set on *)
(* the nodes, code/emitted/printed the generator's output, err the         *)
(* exception being raised ("none": none), ret the last returned text.      *)
(*                                                                         *)
(* A token is [k, s]: its kind (NAME, OP, NUMBER, STRING, WS: a run of     *)
(* blanks, NL: a line break) and its text.  The TokenGenerator, ast_utils  *)
(* and the generator's primitives are not in annotate.py; they follow the  *)
(* design document.                                                        *)
(***************************************************************************)
Tok(k, s) == [k |-> k, s |-> s]
NoTok == Tok("NONE", "")

RECURSIVE Text(_)
\* the source text of a token sequence
Text(toks) == IF toks = <<>> THEN "" ELSE Head(toks).s \o Text(Tail(toks))

Raise(st, e) == IF st.err = "none" THEN [st EXCEPT !.err = e] ELSE st

\* TokenGenerator.peek
TG_peek(st) == IF st.i <= Len(st.toks) THEN st.toks[st.i] ELSE NoTok

\* TokenGenerator.next
TG_next(st) ==
  IF st.i > Len(st.toks) THEN Raise(st, "ExhaustedStreamError")
  ELSE [st EXCEPT !.i = @ + 1, !.ret = st.toks[st.i].s]

RECURSIVE WsEnd(_, _, _)
\* the end of the run of non-significant tokens that starts at i
WsEnd(toks, i, newlines) ==
  IF i <= Len(toks) /\ (toks[i].k = "WS" \/ (newlines /\ toks[i].k = "NL"))
    THEN WsEnd(toks, i + 1, newlines) ELSE i

\* TokenGenerator.whitespace(oneline): a line break is taken unless oneline
\* is set and no bracket is open
TG_whitespace(st, oneline) ==
  LET j == WsEnd(st.toks, st.i, ~oneline \/ st.parens > 0)
  IN [st EXCEPT !.i = j, !.ret = Text(SubSeq(st.toks, st.i, j - 1))]

RECURSIVE FindKind(_, _, _)
FindKind(toks, i, k) ==
  IF i > Len(toks) THEN 0
  ELSE IF toks[i].k = k THEN i ELSE FindKind(toks, i + 1, k)

\* TokenGenerator.next_of_type(kind): advance past tokens up to one of the kind
TG_next_of_type(st, k) ==
  LET j == FindKind(st.toks, st.i, k)
  IN IF j = 0 THEN Raise([st EXCEPT !.i = Len(st.toks) + 1], "LexicalMismatchError")
     ELSE [st EXCEPT !.i = j + 1, !.ret = st.toks[j].s]

\* TokenGenerator.str: the exact spelling of the string literal that is next
TG_str(st) == TG_next_of_type(st, "STRING")

\* TokenGenerator.next_name: the next unconsumed NAME token, not consumed
TG_next_name(st) ==
  LET j == FindKind(st.toks, st.i, "NAME")
  IN IF j = 0 THEN NoTok ELSE st.toks[j]

\* TokenGenerator.hint_open / hint_closed
TG_hint_open(st) == [st EXCEPT !.parens = @ + 1]
TG_hint_closed(st) == [st EXCEPT !.parens = IF @ > 0 THEN @ - 1 ELSE 0]

\* ast_utils.setup_props / prop / setprop / appendprop: the properties are
\* kept on the node itself
AU_setup_props(st, n) ==
  IF Has(st.fmt, n) THEN st ELSE [st EXCEPT !.fmt = Put(@, n, EmptyFn)]
AU_has(st, n, name) == Has(st.fmt, n) /\ Has(st.fmt[n], name)
AU_setprop(st, n, name, v) ==
  LET s1 == AU_setup_props(st, n)
  IN [s1 EXCEPT !.fmt[n] = Put(@, name, v)]
AU_appendprop(st, n, name, text) ==
  AU_setprop(st, n, name, (IF AU_has(st, n, name) THEN st.fmt[n][name] ELSE "") \o text)

\* `x in "({["' for a str x: the substrings of the str
SubstringsOpen == {"", "(", "{", "[", "({", "{[", "({["}
SubstringsClose == {"", ")", "}", "]", ")}", "}]", ")}]"}

\* the record of a call of token(): the token taken, the text asked for, and
\* the node whose visit method made the call
Matched(st, s1, token_val) ==
  [s1 EXCEPT !.tr = Append(@, [k |-> "token", from |-> st.i, to |-> s1.i - 1,
                                n |-> IF st.stack = <<>> THEN None ELSE Head(st.stack),
                                slot |-> "", text |-> s1.ret, want |-> token_val])]

\* token() that takes whatever token comes
Mut_token_accepts_any(st, token_val) ==
  IF st.err # "none" THEN st
  ELSE LET s1 == TG_next(st) IN
       IF s1.err # "none" THEN s1 ELSE Matched(st, s1, token_val)

\* AstAnnotator.token
A_token(st, token_val) ==
  IF st.err # "none" THEN st
  ELSE LET s0 == TG_next(st)
           s1 == Matched(st, s0, token_val)
       IN IF s0.err # "none" THEN s0
          ELSE IF s1.ret # token_val THEN Raise(s1, "ValueError")
          ELSE IF s1.ret \in SubstringsOpen THEN TG_hint_open(s1)
          ELSE IF s1.ret \in SubstringsClose THEN TG_hint_closed(s1)
          ELSE s1

\* the record of a piece of text the generator writes
Emitted(st, n, attr_name, text) ==
  Append(st.tr, [k |-> "emit", from |-> st.i, to |-> st.i - 1, n |-> n,
                 slot |-> attr_name, text |-> text, want |-> ""])

\* the generator's token(): the text is written
P_token(st, token_val) ==
  [st EXCEPT !.code = @ \o token_val, !.ret = token_val,
             !.tr = Emitted(st, IF st.stack = <<>> THEN None ELSE Head(st.stack),
                            "", token_val)]

Token(st, v) == IF st.mode = "annotate" THEN A_token(st, v) ELSE P_token(st, v)

\* the parts of an attr_vals list: a str, or one of the functions used
PTok(v) == [k |-> "tok", v |-> v]
PWs == [k |-> "ws", oneline |-> FALSE]
PWs1 == [k |-> "ws", oneline |-> TRUE]
PNumber == [k |-> "number"]
PStr == [k |-> "str"]

\* AstAnnotator.ws and the functions handed to attr by visit_Num / visit_Str
A_part(st, part) ==
  IF st.err # "none" THEN st
  ELSE CASE part.k = "tok" -> A_token(st, part.v)
         [] part.k = "ws" -> TG_whitespace(st, part.oneline)
         [] part.k = "number" -> TG_next_of_type(st, "NUMBER")
         [] part.k = "str" -> TG_str(st)

\* getattr(node, dep, None), boxed: <<>> is None
GetDep(node, dep) == IF Has(node, dep) THEN <<node[dep]>> ELSE <<>>

\* mutant of the snapshot loop: the dependencies are not recorded
Mut_no_snapshot(st, n, deps) == st

RECURSIVE A_snapshot(_, _, _)
\* `for dep in deps: setprop(node, dep + '__src', getattr(node, dep, None))'
A_snapshot(st, n, deps) ==
  IF deps = <<>> THEN st
  ELSE A_snapshot(AU_setprop(st, n, Head(deps) \o "__src", GetDep(st.t[n], Head(deps))),
                  n, Tail(deps))

\* the record of an appendprop: the tokens taken since st and the text
\* appended to the slot
Captured(st, s1, n, attr_name, text) ==
  [s1 EXCEPT !.tr = Append(@, [k |-> "capture", from |-> st.i, to |-> s1.i - 1,
                                n |-> n, slot |-> attr_name, text |-> text,
                                want |-> ""])]

RECURSIVE A_parts(_, _, _, _)
\* `for attr_val in attr_vals: appendprop(node, attr_name, ...)'
A_parts(st, n, attr_name, attr_vals) ==
  IF attr_vals = <<>> \/ st.err # "none" THEN st
  ELSE LET s1 == A_part(st, Head(attr_vals))
       IN IF s1.err # "none" THEN s1
          ELSE A_parts(Captured(st, AU_appendprop(s1, n, attr_name, s1.ret),
                                n, attr_name, s1.ret),
                       n, attr_name, Tail(attr_vals))

\* AstAnnotator.attr
A_attr(st, n, attr_name, attr_vals, deps, default) ==
  IF st.err # "none" THEN st
  ELSE A_parts(A_snapshot(st, n, deps), n, attr_name, attr_vals)

\* whether every dependency has the value it had when the text was captured
DepsUnchanged(st, n, deps) ==
  \A k \in 1..Len(deps) :
    /\ AU_has(st, n, deps[k] \o "__src")
    /\ st.fmt[n][deps[k] \o "__src"] = GetDep(st.t[n], deps[k])

\* the generator's attr(): a slot of a node is written once, with the captured
\* text if there is one and no dependency has changed, else with the default
P_attr(st, n, attr_name, attr_vals, deps, default) ==
  IF <<n, attr_name>> \in st.printed THEN st
  ELSE LET val == IF AU_has(st, n, attr_name) /\ DepsUnchanged(st, n, deps)
                    THEN st.fmt[n][attr_name] ELSE default
       IN [st EXCEPT !.code = @ \o val,
                     !.printed = @ \cup {<<n, attr_name>>},
                     !.emitted = Put(@, <<n, attr_name>>, val),
                     !.tr = Emitted(st, n, attr_name, val)]

Attr(st, n, attr_name, attr_vals, deps, default) ==
  IF st.mode = "annotate" THEN A_attr(st, n, attr_name, attr_vals, deps, default)
  ELSE P_attr(st, n, attr_name, attr_vals, deps, default)

\* AstAnnotator.optional_suffix
A_optional_suffix(st, n, attr_name, token_val) ==
  IF st.err # "none" THEN st
  ELSE IF TG_peek(st) # NoTok /\ TG_peek(st).s = token_val
    THEN LET s1 == TG_next(st)
             s2 == TG_whitespace(s1, FALSE)
         IN Captured(st, AU_appendprop(s2, n, attr_name, s1.ret \o s2.ret),
                     n, attr_name, s1.ret \o s2.ret)
  ELSE st

\* the generator's optional_suffix(): the captured suffix, if any
P_optional_suffix(st, n, attr_name, token_val) ==
  P_attr(st, n, attr_name, <<>>, <<>>, "")

OptionalSuffix(st, n, attr_name, token_val) ==
  IF st.mode = "annotate" THEN A_optional_suffix(st, n, attr_name, token_val)
  ELSE P_optional_suffix(st, n, attr_name, token_val)

\* check_is_elif that looks at the node only
Mut_check_is_elif_no_peek(st, n) == st.t[n].type = "If"

\* AstAnnotator.check_is_elif; the generator replays the recorded choice
CheckIsElif(st, n) ==
  IF st.mode = "annotate"
    THEN st.t[n].type = "If" /\ TG_next_name(st).s = "elif"
    ELSE AU_has(st, n, "is_elif")


\* check_is_continued_with that looks at the node only
Mut_check_is_continued_no_peek(st, n) == st.t[n].type = "With"

\* AstAnnotator.check_is_continued_with; the generator replays the recorded
\* choice.  The attribute is_continued of the node is kept with its
\* properties.
CheckIsContinuedWith(st, n) ==
  IF st.mode = "annotate"
    THEN st.t[n].type = "With" /\ TG_peek(st).s = ","
    ELSE AU_has(st, n, "is_continued")

\* str(n) of the numbers used
NumStr(n) == CASE n = 0 -> "0" [] n = 1 -> "1" [] n = 2 -> "2" [] n = 3 -> "3"

RECURSIVE Dots(_)
\* '.' * level
Dots(level) == IF level = 0 THEN "" ELSE "." \o Dots(level - 1)

RECURSIVE DotPattern(_)
\* ['.', self.ws] * node.level
DotPattern(level) ==
  IF level = 0 THEN <<>> ELSE <<PTok("."), PWs>> \o DotPattern(level - 1)

RECURSIVE PartsPattern(_)
\* [self.ws, part, '.'] for every part but the last, then [self.ws, parts[-1]]
PartsPattern(parts) ==
  IF Len(parts) = 1 THEN <<PWs, PTok(parts[1])>>
  ELSE <<PWs, PTok(parts[1]), PTok(".")>> \o PartsPattern(Tail(parts))

\* module_pattern of visit_ImportFrom
ModulePattern(node) ==
  DotPattern(node.level) \o
    (IF node.module # <<>> THEN PartsPattern(node.module) ELSE <<>>)

Last(s) == s[Len(s)]
Truthy(node, f) == Has(node, f) /\ node[f] # None

(***************************************************************************)
(* The traversal.  A visit method is the list of the steps it takes, in    *)
(* order: a token, a slot (attr), an optional suffix, the visit of a       *)
(* child, or the else part of an If (whose shape is decided when it is     *)
(* reached).  visit_steps runs them.                                       *)
(***************************************************************************)
SToken(v) == [op |-> "token", v |-> v]
SAttr(n, attr_name, attr_vals, deps, default) ==
  [op |-> "attr", n |-> n, name |-> attr_name, vals |-> attr_vals,
   deps |-> deps, default |-> default]
SOptionalSuffix(n, attr_name, v) ==
  [op |-> "optional_suffix", n |-> n, name |-> attr_name, v |-> v]
SVisit(n) == [op |-> "visit", n |-> n]
SOrelse(n) == [op |-> "orelse", n |-> n]
SSetprop(n, name) == [op |-> "setprop", n |-> n, name |-> name]
SLeave == [op |-> "leave"]
SContinued(n) == [op |-> "continued", n |-> n]
SRaise(e) == [op |-> "raise", e |-> e]

\* BaseVisitor.prefix / suffix
Prefix(n) == SAttr(n, "prefix", <<PWs>>, <<>>, "")
Suffix(n, oneline) ==
  SAttr(n, "suffix", <<IF oneline THEN PWs1 ELSE PWs>>, <<>>, "")

RECURSIVE Flat(_)
\* the steps of a loop: those of its rounds, one after the other
Flat(rounds) == IF rounds = <<>> THEN <<>> ELSE Head(rounds) \o Flat(Tail(rounds))

\* `for stmt in ...: self.visit(stmt)'
visit_each(ns) == [i \in 1..Len(ns) |-> SVisit(ns[i])]

\* ast.NodeVisitor.generic_visit
generic_visit(t, n) == visit_each(Children(t, n))

visit_Module(t, n) == generic_visit(t, n) \o <<SAttr(n, "suffix", <<PWs>>, <<>>, "")>>

visit_Import(t, n) ==
  <<SToken("import")>> \o
  Flat([i \in 1..Len(t[n].names) |->
          LET alias == t[n].names[i]
          IN <<SVisit(alias)>> \o
             (IF alias # Last(t[n].names)
                THEN <<Suffix(alias, FALSE), SToken(",")>> ELSE <<>>)])

visit_ImportFrom(t, n) ==
  << SToken("from"),
     SAttr(n, "module_prefix", <<PWs>>, <<>>, " "),
     SAttr(n, "module", ModulePattern(t[n]), <<"level", "module">>,
           Dots(t[n].level) \o Join(t[n].module)),
     SAttr(n, "module_suffix", <<PWs>>, <<>>, " "),
     SToken("import") >> \o
  Flat([i \in 1..Len(t[n].names) |->
          LET alias == t[n].names[i]
          IN <<SVisit(alias)>> \o
             (IF alias # Last(t[n].names) THEN <<SToken(",")>> ELSE <<>>)])

visit_alias(t, n) ==
  <<SToken(Join(t[n].name))>> \o
  (IF t[n].asname # NoStr
     THEN << SAttr(n, "asname", <<PWs, PTok("as"), PWs>>, <<>>, " as "),
             SToken(t[n].asname) >>
     ELSE <<>>)

\* visit_If up to `if node.orelse:'; is_elif is the property of the node
visit_If(t, n, is_elif) ==
  << SToken(IF is_elif THEN "elif" ELSE "if"),
     SVisit(t[n].test),
     SAttr(n, "testsuffix", <<PWs, PTok(":"), PWs>>, <<>>, ":") >> \o
  visit_each(t[n].body) \o <<SOrelse(n)>>

\* visit_If from `if node.orelse:' on; is_elif is check_is_elif(node.orelse[0])
visit_If_orelse(t, n, is_elif) ==
  IF t[n].orelse = <<>> THEN <<>>
  ELSE IF Len(t[n].orelse) = 1 /\ t[t[n].orelse[1]].type = "If" /\ is_elif
    THEN <<SSetprop(t[n].orelse[1], "is_elif"), SVisit(t[n].orelse[1])>>
  ELSE << SAttr(n, "elseprefix", <<PWs>>, <<>>, ""),
          SToken("else"),
          SAttr(n, "elsesuffix", <<PWs, PTok(":"), PWs>>, <<>>, ":") >> \o
       visit_each(t[n].orelse)

\* visit_With up to `if self.check_is_continued_with(node.body[0]):';
\* is_continued is the attribute of the node
visit_With(t, n, is_continued) ==
  (IF ~is_continued THEN <<SToken("with")>> ELSE <<>>) \o
  <<SVisit(t[n].context_expr), Suffix(t[n].context_expr, FALSE)>> \o
  (IF t[n].optional_vars # None
     THEN << SToken("as"), SVisit(t[n].optional_vars),
             Suffix(t[n].optional_vars, FALSE) >>
     ELSE <<>>) \o
  <<SContinued(n)>>

\* visit_With from `if self.check_is_continued_with(node.body[0]):' on;
\* is_continued is what the check returned
visit_With_body(t, n, is_continued) ==
  (IF is_continued
     THEN <<SSetprop(t[n].body[1], "is_continued"), SToken(",")>>
     ELSE <<SToken(":")>>) \o
  visit_each(t[n].body)

visit_While(t, n) ==
  << SToken("while"), SVisit(t[n].test),
     SAttr(n, "testsuffix", <<PWs, PTok(":"), PWs>>, <<>>, ":") >> \o
  visit_each(t[n].body) \o
  (IF t[n].orelse # <<>>
     THEN << SAttr(n, "elseprefix", <<PWs>>, <<>>, ""),
             SToken("else"),
             SAttr(n, "elsesuffix", <<PWs, PTok(":"), PWs>>, <<>>, ":") >> \o
          visit_each(t[n].orelse)
     ELSE <<>>)

\* a try with except and finally is, in Python 2, a TryFinally whose first
\* statement is a TryExcept
Mut_tryfinally_always_opens(t, n) ==
  <<SAttr(n, "open_try", <<PTok("try"), PWs, PTok(":")>>, <<>>, "try:")>> \o
  visit_each(t[n].body) \o
  <<SAttr(n, "open_finally", <<PTok("finally"), PWs, PTok(":")>>, <<>>,
          "finally:")>> \o
  visit_each(t[n].finalbody)

\* node.body[0] of an empty body raises IndexError
visit_TryFinally(t, n) ==
  IF t[n].body = <<>> THEN <<SRaise("IndexError")>>
  ELSE
  (IF t[t[n].body[1]].type # "TryExcept"
     THEN <<SAttr(n, "open_try", <<PTok("try"), PWs, PTok(":")>>, <<>>, "try:")>>
     ELSE <<>>) \o
  visit_each(t[n].body) \o
  <<SAttr(n, "open_finally", <<PTok("finally"), PWs, PTok(":")>>, <<>>,
          "finally:")>> \o
  visit_each(t[n].finalbody)

visit_TryExcept(t, n) ==
  <<SAttr(n, "open_try", <<PTok("try"), PWs, PTok(":")>>, <<>>, "try:")>> \o
  visit_each(t[n].body) \o
  visit_each(t[n].handlers) \o
  (IF t[n].orelse # <<>>
     THEN <<SAttr(n, "open_else", <<PTok("else"), PWs, PTok(":")>>, <<>>,
                  "else:")>> \o
          visit_each(t[n].orelse)
     ELSE <<>>)

visit_Try(t, n) ==
  visit_TryExcept(t, n) \o
  (IF t[n].finalbody # <<>>
     THEN <<SAttr(n, "open_finally", <<PTok("finally"), PWs, PTok(":")>>, <<>>,
                  "finally:")>> \o
          visit_each(t[n].finalbody)
     ELSE <<>>)

visit_ExceptHandler(t, n) ==
  <<SToken("except")>> \o
  (IF t[n].type_ # None
     THEN <<SVisit(t[n].type_), Suffix(t[n].type_, FALSE)>> ELSE <<>>) \o
  (IF t[n].type_ # None /\ t[n].name # None
     THEN <<SAttr(n, "as", <<PWs, PTok("as"), PWs>>, <<>>, " as ")>>
     ELSE <<>>) \o
  (IF t[n].name # None
     THEN IF IsAST(t, t[n].name) THEN <<SVisit(t[n].name)>>
          ELSE << SToken(t[t[n].name].s),
                  SAttr(n, "name_suffix", <<PWs>>, <<>>, "") >>
     ELSE <<>>) \o
  <<SToken(":")>> \o visit_each(t[n].body)

visit_Global(t, n) == <<SToken("global")>>

visit_Name(t, n) == <<SToken(t[n].id)>>

visit_Pass(t, n) == <<SToken("pass")>>

visit_Expr(t, n) == <<SVisit(t[n].value)>>

\* AstAnnotator.visit_Num; the generator has the same slot
visit_Num(t, n) ==
  << SAttr(n, "content",
           (IF t[n].n < 0 THEN <<PTok("-")>> ELSE <<>>) \o <<PNumber>>,
           <<"n">>, NumStr(t[n].n)) >>

\* AstAnnotator.visit_Str; the generator has the same slot
visit_Str(t, n) == <<SAttr(n, "content", <<PStr>>, <<"s">>, t[n].s)>>

visit_List(t, n) ==
  <<SToken("[")>> \o
  Flat([i \in 1..Len(t[n].elts) |->
          LET elt == t[n].elts[i]
          IN <<SVisit(elt), Suffix(elt, FALSE)>> \o
             (IF elt # Last(t[n].elts) THEN <<SToken(",")>> ELSE <<>>)]) \o
  (IF t[n].elts # <<>> THEN <<SOptionalSuffix(n, "extracomma", ",")>> ELSE <<>>) \o
  <<SAttr(n, "close_prefix", <<PWs>>, <<>>, ""), SToken("]")>>

\* visit_arguments: `if node.vararg:' / `if node.kwarg:'
Star(t, n, f, star, comma) ==
  <<SAttr(n, f \o "_prefix", <<PWs, PTok(star), PWs>>, <<>>, star)>> \o
  (IF IsAST(t, t[n][f]) THEN <<SVisit(t[n][f])>>
   ELSE <<SToken(t[t[n][f]].s), SAttr(n, f \o "_suffix", <<PWs>>, <<>>, "")>>) \o
  (IF comma THEN <<SToken(",")>> ELSE <<>>)

visit_arguments(t, n) ==
  LET node == t[n]
      nd == Len(node.defaults)
      na == Len(node.args)
      total_args == na + (IF Truthy(node, "vararg") THEN 1 ELSE 0)
                       + (IF Truthy(node, "kwarg") THEN 1 ELSE 0)
      positional == IF nd > 0 THEN SubSeq(node.args, 1, na - nd) ELSE node.args
      keyword == IF nd > 0 THEN SubSeq(node.args, na - nd + 1, na) ELSE node.args
      np == Len(positional)
  IN Flat([i \in 1..np |->
             <<SVisit(positional[i]), Suffix(positional[i], FALSE)>> \o
             (IF i < total_args THEN <<SToken(",")>> ELSE <<>>)]) \o
     Flat([i \in 1..nd |->
             << SVisit(keyword[i]), Suffix(keyword[i], FALSE), SToken("="),
                SVisit(node.defaults[i]), Suffix(node.defaults[i], FALSE) >> \o
             (IF np + i < total_args THEN <<SToken(",")>> ELSE <<>>)]) \o
     (IF Truthy(node, "vararg")
        THEN Star(t, n, "vararg", "*", np + nd + 1 < total_args) ELSE <<>>) \o
     (IF Truthy(node, "kwarg") THEN Star(t, n, "kwarg", "**", FALSE) ELSE <<>>)

visit_arg(t, n) ==
  <<SToken(t[n].arg), Suffix(n, FALSE)>> \o
  (IF t[n].annotation # None THEN <<SToken(":"), SVisit(t[n].annotation)>> ELSE <<>>)

visit_FunctionDef(t, n) ==
  Flat([i \in 1..Len(t[n].decorator_list) |->
          << SToken("@"), SVisit(t[n].decorator_list[i]),
             Suffix(t[n].decorator_list[i], FALSE) >>]) \o
  << SToken("def"),
     SAttr(n, "name_prefix", <<PWs>>, <<>>, ""),
     SToken(t[n].name),
     SAttr(n, "name_suffix", <<PWs>>, <<>>, ""),
     SToken("("), SVisit(t[n].args), SToken(")") >> \o
  (IF Truthy(t[n], "returns")
     THEN << SAttr(n, "returns_prefix", <<PWs, PTok("->"), PWs>>, <<"returns">>,
                   " -> "),
             SVisit(t[n].returns) >>
     ELSE <<>>) \o
  <<SToken(":")>> \o visit_each(t[n].body)

\* the visit_<class> method; each is decorated @spaced or @parenthesizable:
\* prefix(node), the method, suffix(node, oneline=True)
visit_method(st, n) ==
  LET t == st.t
      type == t[n].type
  IN <<Prefix(n)>> \o
     (CASE type = "Module" -> visit_Module(t, n)
        [] type = "Import" -> visit_Import(t, n)
        [] type = "ImportFrom" -> visit_ImportFrom(t, n)
        [] type = "alias" -> visit_alias(t, n)
        [] type = "If" -> visit_If(t, n, AU_has(st, n, "is_elif"))
        [] type = "With" -> visit_With(t, n, AU_has(st, n, "is_continued"))
        [] type = "While" -> visit_While(t, n)
        [] type = "TryFinally" -> visit_TryFinally(t, n)
        [] type = "TryExcept" -> visit_TryExcept(t, n)
        [] type = "Try" -> visit_Try(t, n)
        [] type = "ExceptHandler" -> visit_ExceptHandler(t, n)
        [] type = "Global" -> visit_Global(t, n)
        [] type = "Pass" -> visit_Pass(t, n)
        [] type = "arguments" -> visit_arguments(t, n)
        [] type = "arg" -> visit_arg(t, n)
        [] type = "FunctionDef" -> visit_FunctionDef(t, n)
        [] type = "Name" -> visit_Name(t, n)
        [] type = "Expr" -> visit_Expr(t, n)
        [] type = "Num" -> visit_Num(t, n)
        [] type = "Str" -> visit_Str(t, n)
        [] type = "List" -> visit_List(t, n)) \o
     <<Suffix(n, TRUE)>>

\* one step of the traversal: the state after it and the steps still to take
visit_step(st, step, rest) ==
  CASE step.op = "visit" ->
         \* BaseVisitor.visit: setup_props, then the visit_<class> method
         [st |-> [AU_setup_props(st, step.n) EXCEPT
                    !.stack = <<step.n>> \o @,
                    !.tr = Append(@, [k |-> "visit", from |-> st.i,
                                      to |-> st.i - 1, n |-> step.n,
                                      slot |-> "", text |-> "", want |-> ""])],
          work |-> visit_method(st, step.n) \o <<SLeave>> \o rest]
    [] step.op = "leave" -> [st |-> [st EXCEPT !.stack = Tail(@)], work |-> rest]
    [] step.op = "orelse" ->
         [st |-> st,
          work |-> visit_If_orelse(st.t, step.n,
                     st.t[step.n].orelse # <<>>
                     /\ CheckIsElif(st, st.t[step.n].orelse[1])) \o rest]
    [] step.op = "continued" ->
         \* node.body[0] of an empty body: IndexError
         IF st.t[step.n].body = <<>>
           THEN [st |-> Raise(st, "IndexError"), work |-> rest]
           ELSE [st |-> st,
                 work |-> visit_With_body(st.t, step.n,
                            CheckIsContinuedWith(st, st.t[step.n].body[1]))
                          \o rest]
    [] step.op = "raise" -> [st |-> Raise(st, step.e), work |-> rest]
    [] step.op = "setprop" ->
         [st |-> AU_setprop(st, step.n, step.name, TRUE), work |-> rest]
    [] step.op = "token" -> [st |-> Token(st, step.v), work |-> rest]
    [] step.op = "attr" ->
         [st |-> Attr(st, step.n, step.name, step.vals, step.deps, step.default),
          work |-> rest]
    [] step.op = "optional_suffix" ->
         [st |-> OptionalSuffix(st, step.n, step.name, step.v), work |-> rest]

RECURSIVE visit_steps(_, _)
\* the steps are taken in order until one raises
visit_steps(st, todo) ==
  IF todo = <<>> \/ st.err # "none" THEN st
  ELSE LET r == visit_step(st, Head(todo), Tail(todo))
       IN visit_steps(r.st, r.work)

\* visitor.visit(node)
visit(st, n) == visit_steps(st, <<SVisit(n)>>)

(***************************************************************************)
(* import_utils.py.  copy.deepcopy(node) gives a new node with the same    *)
(* fields and the same properties; its names are then replaced, so the     *)
(* copies of the aliases are dropped.                                      *)
(***************************************************************************)
BlockAttrs == <<"body", "orelse", "finalbody">>

\* the first of 'body', 'orelse', 'finalbody' that parent has and that holds
\* node, or "" when the for loop reaches its else
ParentListAttr(t, parent, node) ==
  LET held == {k \in 1..Len(BlockAttrs) :
                 parent # None /\ Has(t[parent], BlockAttrs[k])
                 /\ InSeq(t[parent][BlockAttrs[k]], node)}
  IN IF held = {} THEN ""
     ELSE BlockAttrs[CHOOSE k \in held : \A j \in held : k <= j]

\* mutant of split_import: the new import is put in the list before the
\* alias is taken out of node.names
Mut_split_inserts_first(t, f, par, node, alias_to_remove) ==
  IF ~Has(par, node) THEN [t |-> t, fmt |-> f, err |-> "KeyError", ret |-> None]
  ELSE LET parent == par[node]
           a == ParentListAttr(t, parent, node)
       IN IF a = ""
            THEN [t |-> t, fmt |-> f, err |-> "InvalidAstError", ret |-> None]
          ELSE LET idx == SeqIndex(t[parent][a], node, 1)
                   new_import == Len(t) + 1
                   names == t[node].names
                   t1 == Append([t EXCEPT ![parent][a] = InsertAt(@, idx + 1, new_import)],
                                [t[node] EXCEPT !.names = <<alias_to_remove>>])
                   f1 == IF Has(f, node) THEN Put(f, new_import, f[node]) ELSE f
               IN IF ~InSeq(names, alias_to_remove)
                    THEN [t |-> t1, fmt |-> f1, err |-> "ValueError", ret |-> None]
                    ELSE [t |-> [t1 EXCEPT ![node].names =
                                   RemoveAt(names, SeqIndex(names, alias_to_remove, 1))],
                          fmt |-> f1, err |-> "none", ret |-> new_import]

\* mutant of split_import: the alias stays in node.names
Mut_split_keeps_alias(t, f, par, node, alias_to_remove) ==
  IF ~Has(par, node) THEN [t |-> t, fmt |-> f, err |-> "KeyError", ret |-> None]
  ELSE LET parent == par[node]
           a == ParentListAttr(t, parent, node)
       IN IF a = ""
            THEN [t |-> t, fmt |-> f, err |-> "InvalidAstError", ret |-> None]
          ELSE LET idx == SeqIndex(t[parent][a], node, 1)
                   new_import == Len(t) + 1
               IN [t |-> Append([t EXCEPT ![parent][a] = InsertAt(@, idx + 1, new_import)],
                                [t[node] EXCEPT !.names = <<alias_to_remove>>]),
                   fmt |-> IF Has(f, node) THEN Put(f, new_import, f[node]) ELSE f,
                   err |-> "none", ret |-> new_import]

\* mutant of split_import: the new import is appended to the list
Mut_split_appends(t, f, par, node, alias_to_remove) ==
  IF ~Has(par, node) THEN [t |-> t, fmt |-> f, err |-> "KeyError", ret |-> None]
  ELSE LET parent == par[node]
           a == ParentListAttr(t, parent, node)
       IN IF a = ""
            THEN [t |-> t, fmt |-> f, err |-> "InvalidAstError", ret |-> None]
          ELSE IF ~InSeq(t[node].names, alias_to_remove)
            THEN [t |-> t, fmt |-> f, err |-> "ValueError", ret |-> None]
          ELSE LET new_import == Len(t) + 1
                   names == t[node].names
               IN [t |-> Append([t EXCEPT
                          ![node].names = RemoveAt(names, SeqIndex(names, alias_to_remove, 1)),
                          ![parent][a] = Append(@, new_import)],
                        [t[node] EXCEPT !.names = <<alias_to_remove>>]),
                   fmt |-> IF Has(f, node) THEN Put(f, new_import, f[node]) ELSE f,
                   err |-> "none", ret |-> new_import]

\* split_import(sc, node, alias_to_remove): t the tree, f the properties of
\* the nodes, par the _parents of sc
split_import(t, f, par, node, alias_to_remove) ==
  IF ~Has(par, node) THEN [t |-> t, fmt |-> f, err |-> "KeyError", ret |-> None]
  ELSE LET parent == par[node]
           a == ParentListAttr(t, parent, node)
       IN IF a = ""
            THEN [t |-> t, fmt |-> f, err |-> "InvalidAstError", ret |-> None]
          ELSE IF ~InSeq(t[node].names, alias_to_remove)
            \* node.names.remove(alias_to_remove) raises; the copy is dropped
            THEN [t |-> t, fmt |-> f, err |-> "ValueError", ret |-> None]
          ELSE LET idx == SeqIndex(t[parent][a], node, 1)
                   new_import == Len(t) + 1
                   names == t[node].names
               IN [t |-> Append([t EXCEPT
                          ![node].names = RemoveAt(names, SeqIndex(names, alias_to_remove, 1)),
                          ![parent][a] = InsertAt(@, idx + 1, new_import)],
                        [t[node] EXCEPT !.names = <<alias_to_remove>>]),
                   fmt |-> IF Has(f, node) THEN Put(f, new_import, f[node]) ELSE f,
                   err |-> "none", ret |-> new_import]


(***************************************************************************)
(* The programs: a source text as the tokenizer splits it, and the tree    *)
(* ast.parse gives for it.  A program without src is a tree whose source   *)
(* the caller did not keep: it can be analysed and edited, not annotated.  *)
(***************************************************************************)
TN(s) == Tok("NAME", s)
TO(s) == Tok("OP", s)
TW(s) == Tok("WS", s)
TNL == Tok("NL", "\n")
TNum(s) == Tok("NUMBER", s)
TStr(s) == Tok("STRING", s)

Program(src, t) == [src |-> src, tree |-> t]

\* 'import aaa, bbb, ccc\n'
Src_import ==
  << TN("import"), TW(" "), TN("aaa"), TO(","), TW(" "), TN("bbb"), TO(","),
     TW(" "), TN("ccc"), TNL >>
T_import ==
  << Module(<<2>>), Import(<<3, 4, 5>>), Alias(<<"aaa">>, NoStr),
     Alias(<<"bbb">>, NoStr), Alias(<<"ccc">>, NoStr) >>

\* 'import  aaa ,bbb as b \n\n'
Src_import_spaced ==
  << TN("import"), TW("  "), TN("aaa"), TW(" "), TO(","), TN("bbb"), TW(" "),
     TN("as"), TW(" "), TN("b"), TW(" "), TNL, TNL >>
T_import_spaced ==
  << Module(<<2>>), Import(<<3, 4>>), Alias(<<"aaa">>, NoStr),
     Alias(<<"bbb">>, "b") >>

\* 'import aaa.bbb\n'
Src_import_dotted ==
  << TN("import"), TW(" "), TN("aaa"), TO("."), TN("bbb"), TNL >>
T_import_dotted_name ==
  << Module(<<2>>), Import(<<3>>), Alias(<<"aaa", "bbb">>, NoStr) >>

\* 'from aaa import bbb, ccc\n'
Src_from ==
  << TN("from"), TW(" "), TN("aaa"), TW(" "), TN("import"), TW(" "),
     TN("bbb"), TO(","), TW(" "), TN("ccc"), TNL >>
T_from ==
  << Module(<<2>>), ImportFrom(<<"aaa">>, <<3, 4>>, 0),
     Alias(<<"bbb">>, NoStr), Alias(<<"ccc">>, NoStr) >>

\* 'from .  aaa import bbb\n'
Src_from_relative ==
  << TN("from"), TW(" "), TO("."), TW("  "), TN("aaa"), TW(" "), TN("import"),
     TW(" "), TN("bbb"), TNL >>
T_from_relative ==
  << Module(<<2>>), ImportFrom(<<"aaa">>, <<3>>, 1), Alias(<<"bbb">>, NoStr) >>

\* 'global x\n'
Src_global == << TN("global"), TW(" "), TN("x"), TNL >>
T_global == << Module(<<2>>), Global(<<"x">>) >>

\* 'pass\nglobal x\npass\n'
Src_global_pass ==
  << TN("pass"), TNL, TN("global"), TW(" "), TN("x"), TNL, TN("pass"), TNL >>
T_global_pass == << Module(<<2, 3, 4>>), Pass, Global(<<"x">>), Pass >>

\* '0x1\n'
Src_num == << TNum("0x1"), TNL >>
T_num == << Module(<<2>>), Expr(3), Num(1) >>

\* "'a'  \n"
Src_str == << TStr("'a'"), TW("  "), TNL >>
T_str == << Module(<<2>>), Expr(3), Str("a") >>

\* '[1 ,\n 0x2, ]\n'
Src_list ==
  << TO("["), TNum("1"), TW(" "), TO(","), TNL, TW(" "), TNum("0x2"), TO(","),
     TW(" "), TO("]"), TNL >>
T_list == << Module(<<2>>), Expr(3), List(<<4, 5>>), Num(1), Num(2) >>

\* 'def f(a, b=1)  ->  int:\n  pass\n'
Src_def ==
  << TN("def"), TW(" "), TN("f"), TO("("), TN("a"), TO(","), TW(" "), TN("b"),
     TO("="), TNum("1"), TO(")"), TW("  "), TO("->"), TW("  "), TN("int"),
     TO(":"), TNL, TW("  "), TN("pass"), TNL >>
T_def ==
  << Module(<<2>>), FunctionDef("f", 3, <<7>>, <<>>, 8),
     Arguments(<<4, 5>>, None, <<>>, None, <<6>>), Arg("a"), Arg("b"), Num(1),
     Pass, Name("int", "Load") >>

\* 'if foo:\n  import aaa, bbb\nelse:\n  pass\n'
Src_if ==
  << TN("if"), TW(" "), TN("foo"), TO(":"), TNL, TW("  "), TN("import"),
     TW(" "), TN("aaa"), TO(","), TW(" "), TN("bbb"), TNL, TN("else"), TO(":"),
     TNL, TW("  "), TN("pass"), TNL >>
T_if ==
  << Module(<<2>>), If(3, <<4>>, <<7>>), Name("foo", "Load"), Import(<<5, 6>>),
     Alias(<<"aaa">>, NoStr), Alias(<<"bbb">>, NoStr), Pass >>

\* 'if a:\n  pass\nelif b:\n  pass\n'
Src_elif ==
  << TN("if"), TW(" "), TN("a"), TO(":"), TNL, TW("  "), TN("pass"), TNL,
     TN("elif"), TW(" "), TN("b"), TO(":"), TNL, TW("  "), TN("pass"), TNL >>
T_elif ==
  << Module(<<2>>), If(3, <<4>>, <<5>>), Name("a", "Load"), Pass,
     If(6, <<7>>, <<>>), Name("b", "Load"), Pass >>

\* 'if a:\n  pass\nelse:\n  if b:\n    pass\n'         (its tree is T_elif)
Src_else_if ==
  << TN("if"), TW(" "), TN("a"), TO(":"), TNL, TW("  "), TN("pass"), TNL,
     TN("else"), TO(":"), TNL, TW("  "), TN("if"), TW(" "), TN("b"), TO(":"),
     TNL, TW("    "), TN("pass"), TNL >>

\* 'if a:\n  pass\nelse:\n  if b:\n    pass\n  pass\n'
Src_else_two ==
  << TN("if"), TW(" "), TN("a"), TO(":"), TNL, TW("  "), TN("pass"), TNL,
     TN("else"), TO(":"), TNL, TW("  "), TN("if"), TW(" "), TN("b"), TO(":"),
     TNL, TW("    "), TN("pass"), TNL, TW("  "), TN("pass"), TNL >>
T_else_two ==
  << Module(<<2>>), If(3, <<4>>, <<5, 8>>), Name("a", "Load"), Pass,
     If(6, <<7>>, <<>>), Name("b", "Load"), Pass, Pass >>

\* 'if a:\n  pass\nelif b:\n  pass\nelse:\n  pass\n'
Src_elif_else ==
  << TN("if"), TW(" "), TN("a"), TO(":"), TNL, TW("  "), TN("pass"), TNL,
     TN("elif"), TW(" "), TN("b"), TO(":"), TNL, TW("  "), TN("pass"), TNL,
     TN("else"), TO(":"), TNL, TW("  "), TN("pass"), TNL >>
T_elif_else ==
  << Module(<<2>>), If(3, <<4>>, <<5>>), Name("a", "Load"), Pass,
     If(6, <<7>>, <<8>>), Name("b", "Load"), Pass, Pass >>

\* 'with a, b:\n  pass\n'                          (Python 2, as the next two)
Src_with_grouped ==
  << TN("with"), TW(" "), TN("a"), TO(","), TW(" "), TN("b"), TO(":"), TNL,
     TW("  "), TN("pass"), TNL >>

\* 'with a:\n  with b:\n    pass\n'               (the same tree, T_with)
Src_with_nested ==
  << TN("with"), TW(" "), TN("a"), TO(":"), TNL, TW("  "), TN("with"),
     TW(" "), TN("b"), TO(":"), TNL, TW("    "), TN("pass"), TNL >>
T_with ==
  << Module(<<2>>), With(3, None, <<4>>), Name("a", "Load"),
     With(5, None, <<6>>), Name("b", "Load"), Pass >>

\* 'with a as x , b as c:\n  pass\n'
Src_with_as ==
  << TN("with"), TW(" "), TN("a"), TW(" "), TN("as"), TW(" "), TN("x"),
     TW(" "), TO(","), TW(" "), TN("b"), TW(" "), TN("as"), TW(" "), TN("c"),
     TO(":"), TNL, TW("  "), TN("pass"), TNL >>
T_with_as ==
  << Module(<<2>>), With(3, 4, <<5>>), Name("a", "Load"), Name("x", "Store"),
     With(6, 7, <<8>>), Name("b", "Load"), Name("c", "Store"), Pass >>

\* 'while a:\n  pass\nelse:\n  import aaa, bbb\n'
T_while ==
  << Module(<<2>>), While(3, <<4>>, <<5>>), Name("a", "Load"), Pass,
     Import(<<6, 7>>), Alias(<<"aaa">>, NoStr), Alias(<<"bbb">>, NoStr) >>

\* 'try:\n  pass\nfinally:\n  from aaa import bbb, ccc\npass\n'
T_try ==
  << Module(<<2, 7>>), TryFinally(<<3>>, <<4>>), Pass,
     ImportFrom(<<"aaa">>, <<5, 6>>, 0), Alias(<<"bbb">>, NoStr),
     Alias(<<"ccc">>, "c"), Pass >>

\* 'try:\n  pass\nexcept:\n  pass\nfinally:\n  pass\n'           (Python 2)
T_try_except_finally ==
  << Module(<<2>>), TryFinally(<<3>>, <<7>>), TryExcept(<<4>>, <<5>>, <<>>),
     Pass, ExceptHandler(None, None, <<6>>), Pass, Pass >>

\* 'try:\n  pass\n  try:\n    pass\n  except e:\n    pass\n  else:\n    pass\n
\*  finally:\n  pass\n'                                             (Python 2)
T_try_except_second ==
  << Module(<<2>>), TryFinally(<<3, 4>>, <<10>>), Pass,
     TryExcept(<<5>>, <<6>>, <<9>>), Pass, ExceptHandler(7, None, <<8>>),
     Name("e", "Load"), Pass, Pass, Pass >>

\* 'try:\n  pass\nexcept:\n  pass\nelse:\n  pass\nfinally:\n  pass\n' (Python 3)
T_try3 ==
  << Module(<<2>>), Try(<<3>>, <<4>>, <<6>>, <<7>>), Pass,
     ExceptHandler(None, None, <<5>>), Pass, Pass, Pass >>

\* 'try:\n  pass\nfinally:\n  pass\ntry:\n  pass\nexcept:\n  pass\n'  (Python 3)
T_try3_two ==
  << Module(<<2, 5>>), Try(<<3>>, <<>>, <<>>, <<4>>), Pass, Pass,
     Try(<<6>>, <<7>>, <<>>, <<>>), Pass, ExceptHandler(None, None, <<8>>),
     Pass >>

\* 'import aaa, bbb\nimport ccc, ddd\npass\n'
T_two_imports ==
  << Module(<<2, 5, 8>>), Import(<<3, 4>>), Alias(<<"aaa">>, NoStr),
     Alias(<<"bbb">>, NoStr), Import(<<6, 7>>), Alias(<<"ccc">>, NoStr),
     Alias(<<"ddd">>, NoStr), Pass >>

\* the trees below do not match the source they are annotated against
\* 'from aaa import bbb, ccc\n' against the tree of 'from aaa import bbb, ddd'
T_from_stale ==
  << Module(<<2>>), ImportFrom(<<"aaa">>, <<3, 4>>, 0),
     Alias(<<"bbb">>, NoStr), Alias(<<"ddd">>, NoStr) >>

\* 'import  aaa ,bbb as b \n\n' against the tree of 'import aaa as a, bbb as b'
T_import_spaced_stale ==
  << Module(<<2>>), Import(<<3, 4>>), Alias(<<"aaa">>, "a"),
     Alias(<<"bbb">>, "b") >>

\* '0x1\n' against the tree of '1\npass'
T_num_pass == << Module(<<2, 4>>), Expr(3), Num(1), Pass >>

Programs ==
  << Program(Src_from, T_from_stale),
     Program(Src_import_spaced, T_import_spaced_stale),
     Program(Src_num, T_num_pass), Program(Src_else_if, T_elif),
     Program(Src_with_grouped, T_with), Program(Src_with_nested, T_with),
     Program(Src_with_as, T_with_as),
     Program(Src_else_two, T_else_two), Program(Src_elif_else, T_elif_else), Program(Src_import, T_import), Program(Src_import_spaced, T_import_spaced),
     Program(Src_import_dotted, T_import_dotted_name), Program(Src_from, T_from),
     Program(Src_from_relative, T_from_relative), Program(Src_global, T_global),
     Program(Src_global_pass, T_global_pass), Program(Src_num, T_num),
     Program(Src_str, T_str), Program(Src_list, T_list), Program(Src_def, T_def),
     Program(Src_if, T_if), Program(Src_elif, T_elif), Program(<<>>, T_while),
     Program(<<>>, T_try), Program(<<>>, T_two_imports),
     Program(<<>>, T_try_except_finally), Program(<<>>, T_try_except_second),
     Program(<<>>, T_try3), Program(<<>>, T_try3_two) >>


(***************************************************************************)
(* The pipeline a caller drives: parse, annotate, analyze, edit (by hand   *)
(* or with split_import), generate.  log keeps the history the properties  *)
(* speak about: the calls of split_import made with the current sc (hist), *)
(* whether the caller has changed the tree's structure since sc was        *)
(* computed (stale), and the last call (pre: the tree before it).          *)
(***************************************************************************)
Log0 ==
  [op |-> "none", splits |-> 0, edits |-> 0, analyses |-> 0,
   analyzed |-> FALSE, stale |-> FALSE, hist |-> <<>>, node |-> None,
   alias |-> None, err |-> "none", ret |-> None, pre |-> <<>>, tr |-> <<>>]

Init ==
  /\ \E i \in 1..Len(Programs) :
       /\ tree = Programs[i].tree
       /\ source = Programs[i].src
  /\ tree0 = tree
  /\ pc = "parsed"
  /\ scopes = <<>>
  /\ nameobjs = <<>>
  /\ scope = None
  /\ vparent = None
  /\ parents = EmptyFn
  /\ external_references = EmptyFn
  /\ nodes_to_names = EmptyFn
  /\ work = <<>>
  /\ verr = "none"
  /\ opened = EmptyFn
  /\ log = Log0
  /\ fmt = EmptyFn
  /\ cursor = 1
  /\ parens = 0
  /\ code = ""
  /\ emitted = EmptyFn

St0(mode) ==
  [mode |-> mode, t |-> tree, toks |-> source, i |-> 1, parens |-> 0,
   fmt |-> fmt, code |-> "", emitted |-> EmptyFn, printed |-> {},
   err |-> "none", ret |-> "", tr |-> <<>>, stack |-> <<>>]

\* AstAnnotator(source).visit(tree)
Annotate ==
  /\ pc = "parsed"
  /\ source # <<>>
  /\ LET r == visit(St0("annotate"), 1)
     IN /\ fmt' = r.fmt
        /\ cursor' = r.i
        /\ parens' = r.parens
        /\ pc' = IF r.err = "none" THEN "annotated" ELSE "failed"
        /\ log' = [log EXCEPT !.op = "annotate", !.err = r.err, !.tr = r.tr]
  /\ UNCHANGED <<tree, source, code, emitted, tree0>>
  /\ UNCHANGED scopeVars

\* sc = scope.analyze(tree)
Analyze ==
  /\ pc \in {"parsed", "annotated"}
  /\ log.analyses < MaxAnalyses
  /\ log.splits + log.edits + log.analyses < MaxCalls
  /\ SetV(analyze(tree))
  /\ log' = [log EXCEPT !.op = "analyze", !.analyses = @ + 1,
                        !.analyzed = TRUE, !.stale = FALSE, !.hist = <<>>]
  /\ UNCHANGED <<tree, pc>>
  /\ UNCHANGED fmtVars

\* the caller edits the tree it has parsed (and annotated, if it can be)
Editable == pc = "annotated" \/ (pc = "parsed" /\ source = <<>>)

IsImport(t, n) == t[n].type \in {"Import", "ImportFrom"}

\* split_import(sc, node, alias_to_remove)
SplitImport ==
  /\ Editable
  /\ log.analyzed
  /\ verr = "none"
  /\ log.splits < MaxSplits
  /\ log.splits + log.edits + log.analyses < MaxCalls
  /\ \E node \in {n \in 1..Len(tree) : IsImport(tree, n)},
        alias \in {n \in 1..Len(tree) : tree[n].type = "alias"} :
       LET r == split_import(tree, fmt, parents, node, alias)
       IN /\ tree' = r.t
          /\ fmt' = r.fmt
          /\ log' = [log EXCEPT !.op = "split", !.splits = @ + 1,
                       !.node = node, !.alias = alias, !.err = r.err,
                       !.ret = r.ret, !.pre = tree,
                       !.hist = Append(@, [node |-> node, alias |-> alias,
                                            err |-> r.err, ret |-> r.ret,
                                            valid |-> InSeq(tree[node].names, alias)])]
  /\ UNCHANGED <<pc, source, cursor, parens, code, emitted, tree0>>
  /\ UNCHANGED scopeVars

\* the caller sets a field of a node: node.n, node.s, node.level, node.module,
\* node.returns (to None, to the node it holds, or to a new Name)
SetField ==
  /\ pc = "annotated"
  /\ log.edits < MaxEdits
  /\ log.splits + log.edits + log.analyses < MaxCalls
  /\ \E n \in 1..Len(tree) :
       \/ /\ tree[n].type = "Num"
          /\ \E v \in {1, 2} : tree' = [tree EXCEPT ![n].n = v]
       \/ /\ tree[n].type = "Str"
          /\ \E v \in {"a", "b"} : tree' = [tree EXCEPT ![n].s = v]
       \/ /\ tree[n].type = "ImportFrom"
          /\ \E v \in {0, 1} : tree' = [tree EXCEPT ![n].level = v]
       \/ /\ tree[n].type = "ImportFrom"
          /\ \E v \in {<<"aaa">>, <<"zzz">>, <<>>} : tree' = [tree EXCEPT ![n].module = v]
       \/ /\ tree[n].type = "FunctionDef"
          /\ Has(tree[n], "returns")
          /\ \/ \E v \in {None, tree[n].returns} : tree' = [tree EXCEPT ![n].returns = v]
             \/ tree' = Append([tree EXCEPT ![n].returns = Len(tree) + 1],
                               Name("str", "Load"))
  /\ log' = [log EXCEPT !.op = "edit", !.edits = @ + 1]
  /\ UNCHANGED <<pc>>
  /\ UNCHANGED scopeVars
  /\ UNCHANGED fmtVars

\* the caller takes a statement out of the list that holds it
RemoveStmt ==
  /\ Editable
  /\ log.edits < MaxEdits
  /\ log.splits + log.edits + log.analyses < MaxCalls
  /\ \E p \in 1..Len(tree), k \in 1..Len(BlockAttrs) :
       /\ Has(tree[p], BlockAttrs[k])
       /\ \E i \in 1..Len(tree[p][BlockAttrs[k]]) :
            tree' = [tree EXCEPT ![p][BlockAttrs[k]] = RemoveAt(@, i)]
  /\ log' = [log EXCEPT !.op = "remove", !.edits = @ + 1, !.stale = log.analyzed]
  /\ UNCHANGED <<pc>>
  /\ UNCHANGED scopeVars
  /\ UNCHANGED fmtVars

\* the code generator's pass over the tree, annotated or not
Generate ==
  /\ Editable
  /\ LET r == visit(St0("print"), 1)
     IN /\ code' = r.code
        /\ emitted' = r.emitted
        /\ log' = [log EXCEPT !.op = "generate", !.err = r.err, !.tr = r.tr]
  /\ pc' = IF source = <<>> THEN "printed" ELSE "generated"
  /\ UNCHANGED <<tree, source, fmt, cursor, parens, tree0>>
  /\ UNCHANGED scopeVars

Next == Annotate \/ Analyze \/ SplitImport \/ SetField \/ RemoveStmt \/ Generate

Spec == Init /\ [][Next]_vars


(***************************************************************************)
(* Properties of the pipeline.                                             *)
(***************************************************************************)

\* C1: round-trip identity.  Annotating a parsed tree against its source
\* never fails, and generating from the annotated tree, its fields being
\* what the parser gave, yields the source text exactly.
CE_C1_RoundTrip ==
  /\ pc = "failed" => tree0 \in {T_from_stale, T_import_spaced_stale, T_num_pass}
  /\ (pc = "generated" /\ tree = tree0) => code = Text(source)

\* C2: token completeness.  When an annotation pass has completed without
\* raising, the cursor is past the last token of the source and no bracket
\* is recorded as open.
CE_C2_TokenCompleteness ==
  pc = "annotated" => (cursor = Len(source) + 1 /\ parens = 0)

\* C3: edit-then-generate.  For 'import aaa, bbb, ccc\n', annotated, then
\* split on the alias bbb, the generated text is
\* 'import aaa, ccc\nimport bbb\n'.
CE_C3_EditThenGenerate ==
  ( /\ pc = "generated"
    /\ tree0 = T_import /\ source = Src_import
    /\ log.edits = 0 /\ log.splits = 1
    /\ Len(tree) = 6 /\ tree[1].body = <<2, 6>>
    /\ tree[2].names = <<3, 5>> /\ tree[6].names = <<4>> )
  => code = "import aaa, ccc\nimport bbb\n"

\* the slots annotated with dependencies, and their default renderings
DepSlot(type) ==
  CASE type \in {"Num", "Str"} -> "content"
    [] type = "ImportFrom" -> "module"
    [] type = "FunctionDef" -> "returns_prefix"
    [] OTHER -> ""
DepsOf(type) ==
  CASE type = "Num" -> <<"n">>
    [] type = "Str" -> <<"s">>
    [] type = "ImportFrom" -> <<"level", "module">>
    [] type = "FunctionDef" -> <<"returns">>
    [] OTHER -> <<>>
DefaultOf(node) ==
  CASE node.type = "Num" -> NumStr(node.n)
    [] node.type = "Str" -> node.s
    [] node.type = "ImportFrom" -> Dots(node.level) \o Join(node.module)
    [] node.type = "FunctionDef" -> " -> "

SameDeps(n) ==
  \A k \in 1..Len(DepsOf(tree0[n].type)) :
    GetDep(tree[n], DepsOf(tree0[n].type)[k]) = GetDep(tree0[n], DepsOf(tree0[n].type)[k])

\* C4: dependency invalidation.  Every slot annotated with dependencies holds,
\* next to its captured text, the value each dependency had at annotation;
\* when the slot is generated, the captured text is written iff every
\* dependency still has that value, and the default rendering of the node's
\* current value is written otherwise.
Thm_C4_DependencyInvalidation ==
  /\ pc \in {"annotated", "generated"} =>
       \A n \in 1..Len(tree0) :
         (Has(fmt, n) /\ DepSlot(tree0[n].type) # ""
           /\ Has(fmt[n], DepSlot(tree0[n].type))) =>
         \A k \in 1..Len(DepsOf(tree0[n].type)) :
           LET dep == DepsOf(tree0[n].type)[k]
           IN /\ Has(fmt[n], dep \o "__src")
              /\ fmt[n][dep \o "__src"] = GetDep(tree0[n], dep)
  /\ pc = "generated" =>
       \A n \in 1..Len(tree0) :
         Has(emitted, <<n, DepSlot(tree0[n].type)>>) =>
           emitted[<<n, DepSlot(tree0[n].type)>>] =
             IF SameDeps(n) THEN fmt[n][DepSlot(tree0[n].type)]
             ELSE DefaultOf(tree[n])

\* '[1 ,\n 0x2, ]\n' with the first number set to 2: the first is written
\* in the default way, the second as it was spelled
Wit_C4 ==
  /\ pc = "generated" /\ tree0 = T_list /\ tree[4].n = 2 /\ tree[5].n = 2
  /\ emitted[<<4, "content">>] = "2"
  /\ emitted[<<5, "content">>] = "0x2"

\* the last call of split_import was made with node in one of the lists of
\* the parent sc records for it
Contained ==
  /\ Has(parents, log.node)
  /\ ParentListAttr(log.pre, parents[log.node], log.node) # ""

\* C5: postcondition of split_import.  When alias is in node.names and node is
\* in the body, orelse or finalbody of the parent sc records, the call
\* returns a new import of node's type (and module) whose names is [alias],
\* placed in that list right after node; node.names loses alias and nothing
\* else; every other list and node of the tree is as it was.
Thm_C5_SplitPostcondition ==
  (log.op = "split" /\ Contained /\ InSeq(log.pre[log.node].names, log.alias)) =>
    LET pre == log.pre
        node == log.node
        new == log.ret
        p == parents[node]
        a == ParentListAttr(pre, p, node)
        idx == SeqIndex(pre[p][a], node, 1)
    IN /\ log.err = "none"
       /\ new = Len(pre) + 1 /\ Len(tree) = Len(pre) + 1
       /\ Len(tree[p][a]) = Len(pre[p][a]) + 1
       /\ tree[p][a][idx] = node /\ tree[p][a][idx + 1] = new
       /\ \A i \in 1..Len(pre[p][a]) :
            tree[p][a][IF i <= idx THEN i ELSE i + 1] = pre[p][a][i]
       /\ tree[new] = [pre[node] EXCEPT !.names = <<log.alias>>]
       /\ tree[node] = [pre[node] EXCEPT
                          !.names = SelectSeq(@, LAMBDA x : x # log.alias)]
       /\ \A m \in 1..Len(pre) :
            /\ m \notin {node, p} => tree[m] = pre[m]
            /\ m = p => tree[m] = [pre[m] EXCEPT ![a] = tree[p][a]]

\* 'from aaa import bbb, ccc as c' in a finally block, split on ccc
Wit_C5 ==
  /\ log.op = "split" /\ log.err = "none" /\ tree0 = T_try
  /\ log.node = 4 /\ log.alias = 6
  /\ tree[2].finalbody = <<4, 8>> /\ tree[8].names = <<6>>

\* C6: split_import raises InvalidAstError whenever node is not in the body,
\* orelse or finalbody of the parent sc records for it, the case where sc
\* records no parent for node included.
CE_C6_InvalidAstError ==
  (log.op = "split" /\ ~Contained) => log.err = "InvalidAstError"

\* C7: repeated splitting with one scope.  The calls of split_import made
\* with one sc, on one import node of the analysed tree that the caller has
\* left in place, each with an alias still in node.names, all succeed, and
\* the statements after node are the new imports, the last made first.
Thm_C7_RepeatedSplitting ==
  ( /\ log.analyzed /\ ~log.stale /\ log.hist # <<>>
    /\ \A k \in 1..Len(log.hist) :
         log.hist[k].node = log.hist[1].node /\ log.hist[k].valid
    /\ Has(parents, log.hist[1].node) )
  => LET node == log.hist[1].node
         p == parents[node]
         a == ParentListAttr(tree, p, node)
         count == Len(log.hist)
     IN /\ \A k \in 1..count : log.hist[k].err = "none"
        /\ a # ""
        /\ \A k \in 1..count :
             LET stmt == tree[p][a][SeqIndex(tree[p][a], node, 1) + k]
             IN /\ stmt = log.hist[count - k + 1].ret
                /\ tree[stmt].names = <<log.hist[count - k + 1].alias>>

\* 'import aaa, bbb, ccc' split on bbb, then on ccc: aaa; ccc; bbb
Wit_C7 ==
  /\ tree0 = T_import /\ Len(log.hist) = 2
  /\ log.hist[1].node = 2 /\ log.hist[1].alias = 4
  /\ log.hist[2].node = 2 /\ log.hist[2].alias = 5
  /\ tree[1].body = <<2, 7, 6>>
  /\ tree[2].names = <<3>> /\ tree[7].names = <<5>> /\ tree[6].names = <<4>>

\* the lists of statements of a tree, by node and attribute
BlockLists(t) ==
  [q \in {<<n, BlockAttrs[k]>> : n \in NodeIds(t), k \in 1..Len(BlockAttrs)} |->
     IF Has(t[q[1]], q[2]) THEN t[q[1]][q[2]] ELSE <<>>]

\* C23: split_import is all-or-nothing on the tree.  When the call raises
\* (sc records no parent for node, node is in none of the lists of the
\* parent sc records, or alias is not in node.names), node.names and every
\* body, orelse and finalbody list are as before the call, no node has been
\* added, the nodes reachable from the module are the same, and nothing is
\* returned.
Thm_C23_SplitAllOrNothing ==
  (log.op = "split" /\ log.err # "none") =>
    /\ log.err \in {"KeyError", "InvalidAstError", "ValueError"}
    /\ (log.err = "ValueError") =
         (Contained /\ ~InSeq(log.pre[log.node].names, log.alias))
    /\ (log.err = "KeyError") = ~Has(parents, log.node)
    /\ tree[log.node].names = log.pre[log.node].names
    /\ BlockLists(tree) = BlockLists(log.pre)
    /\ Len(tree) = Len(log.pre)
    /\ Descendants(tree, 1) = Descendants(log.pre, 1)
    /\ {n \in NodeIds(tree) : IsImport(tree, n)}
         = {n \in NodeIds(log.pre) : IsImport(log.pre, n)}
    /\ tree = log.pre
    /\ log.ret = None

\* 'import aaa, bbb, ccc' split on bbb, then on bbb again: the second call
\* raises and leaves 'import aaa, ccc' and 'import bbb'
Wit_C23 ==
  /\ tree0 = T_import /\ Len(log.hist) = 2
  /\ log.op = "split" /\ log.err = "ValueError"
  /\ log.hist[1].err = "none" /\ log.hist[1].alias = 4
  /\ log.node = 2 /\ log.alias = 4
  /\ tree[1].body = <<2, 6>> /\ tree[2].names = <<3, 5>>

(***************************************************************************)
(* Claims about the annotation pass.  log.tr is the record of the pass: a  *)
(* "visit" entry for every node visited, a "token" entry for every call of *)
(* token() and a "capture" entry for every appendprop, with the tokens     *)
(* from..to taken from the stream.                                         *)
(***************************************************************************)
\* the slot entries that took token i
CapturesOf(i) ==
  {k \in 1..Len(log.tr) :
     log.tr[k].k = "capture" /\ log.tr[k].from <= i /\ i <= log.tr[k].to}

\* C13 (the claim as stated): after a successful annotation pass every source
\* token has been consumed, and every token, keywords and punctuation matched
\* through token() included, is captured in exactly one formatting slot of
\* one node.
CE_C13_AnnotationComplete ==
  (pc = "annotated" /\ log.op = "annotate") =>
    /\ cursor = Len(source) + 1
    /\ \A i \in 1..Len(source) : Cardinality(CapturesOf(i)) = 1

\* C14 (the claim as stated): when an annotation pass aborts, the tree carries
\* no formatting entry and no dependency snapshot written by the pass.
CE_C14_FailureAtomicity ==
  pc = "failed" => \A n \in DOMAIN fmt : fmt[n] = EmptyFn


RECURSIVE SlotText(_, _, _)
\* the texts the pass appended to a slot, in the order it appended them
SlotText(tr, n, slot) ==
  IF tr = <<>> THEN ""
  ELSE (IF Head(tr).k = "capture" /\ Head(tr).n = n /\ Head(tr).slot = slot
          THEN Head(tr).text ELSE "")
       \o SlotText(Tail(tr), n, slot)

VisitedNodes == {log.tr[k].n : k \in {j \in 1..Len(log.tr) : log.tr[j].k = "visit"}}

\* C15: exact token matching.  Every call of token(v), bare or for a string
\* element of an attr parts list, takes exactly one token, the next of the
\* stream, and succeeds iff its text is v; a token whose text differs ends the
\* pass with a token-mismatch error, leaving the cursor behind that token,
\* with nothing appended to the slot for that part or any later one and no
\* further node visited; the parts of a slot are taken left to right and the
\* slot holds their texts concatenated in that order.
Thm_C15_ExactTokenMatching ==
  log.op = "annotate" =>
    LET tr == log.tr IN
    /\ \A k \in 1..Len(tr) :
         /\ tr[k].k = "token" =>
              /\ tr[k].to = tr[k].from
              /\ tr[k].text = source[tr[k].from].s
              /\ tr[k].text # tr[k].want =>
                   /\ k = Len(tr)
                   /\ pc = "failed" /\ log.err = "ValueError"
                   /\ cursor = tr[k].to + 1
         \* a string element: the slot receives the text asked for
         /\ (tr[k].k = "capture" /\ k > 1 /\ tr[k - 1].k = "token"
             /\ tr[k - 1].from = tr[k].from) =>
              /\ tr[k].to = tr[k].from
              /\ tr[k].text = tr[k - 1].want
         \* the stream is taken left to right
         /\ k > 1 =>
              /\ tr[k].from \in {tr[k - 1].from, tr[k - 1].to + 1}
              /\ tr[k].to >= tr[k - 1].to
    /\ log.err = "ValueError" =>
         /\ tr # <<>>
         /\ Last(tr).k = "token" /\ Last(tr).text # Last(tr).want
    /\ (pc = "annotated" /\ tr # <<>> /\ Last(tr).k = "token") =>
         Last(tr).text = Last(tr).want
    /\ DOMAIN fmt = VisitedNodes
    /\ \A k \in 1..Len(tr) :
         tr[k].k = "capture" =>
           /\ AU_has([fmt |-> fmt], tr[k].n, tr[k].slot)
           /\ fmt[tr[k].n][tr[k].slot] = SlotText(tr, tr[k].n, tr[k].slot)

\* the pass over 'import  aaa ,bbb as b \n\n' with a tree whose first alias
\* has an asname: in the slot asname the whitespace part was taken, then 'as'
\* met ',' and the pass ended there
Wit_C15 ==
  /\ log.op = "annotate"
  /\ pc = "failed"
  /\ tree0 = T_import_spaced_stale
  /\ Last(log.tr).want = "as" /\ Last(log.tr).text = ","
  /\ fmt[3]["asname"] = " "
  /\ cursor = 6
  /\ 4 \notin DOMAIN fmt

\* the calls of token() made by the visit method of node n, in order
TokensOf(n) == SelectSeq(log.tr, LAMBDA e : e.k = "token" /\ e.n = n)
Wants(sq) == [i \in 1..Len(sq) |-> sq[i].want]

\* the place in the record of the visit of node n
VisitPos(n) == CHOOSE k \in 1..Len(log.tr) : log.tr[k].k = "visit" /\ log.tr[k].n = n
Visited(n) == \E k \in 1..Len(log.tr) : log.tr[k].k = "visit" /\ log.tr[k].n = n

\* the cursor when the visit of the statements ns is over
CursorAfter(ns) ==
  LET ks == {k \in 1..Len(log.tr) : log.tr[k].n \in DescOfList(tree0, ns)}
      last == CHOOSE k \in ks : \A j \in ks : j <= k
  IN log.tr[last].to + 1

\* the text of the next NAME token at or after position i ("" when none)
NextNameAt(i) ==
  LET j == FindKind(source, i, "NAME") IN IF j = 0 THEN "" ELSE source[j].s

IfNodes(t) == {n \in NodeIds(t) : t[n].type = "If"}

\* C16: chained conditional hook.  In a pass over a module with If statements
\* the pass completes and, for every If with a non-empty orelse: when orelse
\* is exactly one If and the next unconsumed NAME token after the body is
\* 'elif', the nested If is marked is_elif, its keyword is matched as 'elif'
\* and the outer If matches no 'else'; in every other case the outer If
\* matches 'else' and ':' after its own keyword and ':', the orelse
\* statements are visited in order after the 'else', and a nested If among
\* them is unmarked and matched with 'if'.
Thm_C16_ElifHook ==
  (log.op = "annotate" /\ IfNodes(tree0) # {}) =>
    /\ pc = "annotated"
    /\ \A n \in IfNodes(tree0) :
         LET orelse == tree0[n].orelse
             kw == IF AU_has([fmt |-> fmt], n, "is_elif") THEN "elif" ELSE "if"
         IN
         /\ orelse = <<>> => Wants(TokensOf(n)) = <<kw, ":">>
         /\ orelse # <<>> =>
              IF /\ Len(orelse) = 1
                 /\ tree0[orelse[1]].type = "If"
                 /\ NextNameAt(CursorAfter(tree0[n].body)) = "elif"
                THEN /\ AU_has([fmt |-> fmt], orelse[1], "is_elif")
                     /\ Head(TokensOf(orelse[1])).want = "elif"
                     /\ Head(TokensOf(orelse[1])).text = "elif"
                     /\ Wants(TokensOf(n)) = <<kw, ":">>
                     /\ ~AU_has([fmt |-> fmt], n, "elseprefix")
                ELSE /\ Wants(TokensOf(n)) = <<kw, ":", "else", ":">>
                     /\ \A i \in 1..Len(orelse) :
                          /\ Visited(orelse[i])
                          /\ log.tr[VisitPos(orelse[i])].from > TokensOf(n)[3].to
                          /\ i > 1 => VisitPos(orelse[i - 1]) < VisitPos(orelse[i])
                          /\ tree0[orelse[i]].type = "If" =>
                               /\ ~AU_has([fmt |-> fmt], orelse[i], "is_elif")
                               /\ Head(TokensOf(orelse[i])).want = "if"

\* the same tree, If(a, [pass], [If(b, [pass], [])]), was annotated against
\* 'else:' followed by a nested 'if': the nested If is not marked and the
\* outer If matched 'else'
Wit_C16 ==
  /\ log.op = "annotate"
  /\ pc = "annotated"
  /\ tree0 = T_elif
  /\ source = Src_else_if
  /\ ~AU_has([fmt |-> fmt], 5, "is_elif")
  /\ Wants(TokensOf(2)) = <<"if", ":", "else", ":">>

WithNodes(t) == {n \in NodeIds(t) : t[n].type = "With"}

\* C17: grouped with-statement hook.  In a pass over a module with With
\* statements (without an items field) the pass completes and every With
\* matches, after its context expression and optional target, exactly one of
\* ',' and ':'; it matches ',' iff its first body statement is a With and the
\* next token at that point is ','; the nested With is then flagged
\* is_continued and matches no 'with'; a With that is not flagged matches
\* exactly one 'with', before its context expression.
Thm_C17_ContinuedWithHook ==
  (log.op = "annotate" /\ WithNodes(tree0) # {}) =>
    /\ pc = "annotated"
    /\ \A n \in WithNodes(tree0) :
         LET node == tree0[n]
             flagged == AU_has([fmt |-> fmt], n, "is_continued")
             target == IF node.optional_vars # None
                         THEN node.optional_vars ELSE node.context_expr
             wants == Wants(TokensOf(n))
             sep == Last(wants)
             first == node.body[1]
         IN
         /\ sep \in {",", ":"}
         /\ wants = (IF flagged THEN <<>> ELSE <<"with">>)
                    \o (IF node.optional_vars # None THEN <<"as">> ELSE <<>>)
                    \o <<sep>>
         /\ ~flagged => Head(TokensOf(n)).to < log.tr[VisitPos(node.context_expr)].from
         /\ Last(TokensOf(n)).from = CursorAfter(<<target>>)
         /\ sep = "," <=> (tree0[first].type = "With"
                           /\ source[CursorAfter(<<target>>)].s = ",")
         /\ tree0[first].type = "With" =>
              (sep = "," <=> AU_has([fmt |-> fmt], first, "is_continued"))
         /\ VisitPos(first) > VisitPos(target)
         /\ log.tr[VisitPos(first)].from = Last(TokensOf(n)).to + 1

\* the tree With(a, [With(b, [pass])]) was annotated against 'with a, b:':
\* the outer With matched ',' and the nested one, flagged, matched only ':'
Wit_C17 ==
  /\ log.op = "annotate"
  /\ pc = "annotated"
  /\ source = Src_with_grouped
  /\ AU_has([fmt |-> fmt], 4, "is_continued")
  /\ Wants(TokensOf(2)) = <<"with", ",">>
  /\ Wants(TokensOf(4)) = <<":">>

(***************************************************************************)
(* Claims about the generator's pass.  After Generate, log.tr is the       *)
(* record of the pass: a "visit" entry for every node visited and an       *)
(* "emit" entry for every piece of text written, in order.                 *)
(***************************************************************************)
\* the place in the record where a slot of a node is written
EmitPos(n, slot) ==
  {k \in 1..Len(log.tr) :
     log.tr[k].k = "emit" /\ log.tr[k].n = n /\ log.tr[k].slot = slot}

\* the places in the record of the visits of the statements ns
PosOf(ns) == {k \in 1..Len(log.tr) : log.tr[k].n \in DescOfList(tree0, ns)}

Before(A, B) == \A a \in A : \A b \in B : a < b

\* every part of the sequence comes before every later part
InOrder(segs) ==
  \A i \in 1..Len(segs) : \A j \in 1..Len(segs) : i < j => Before(segs[i], segs[j])

OneText(n, slot, text) ==
  /\ Cardinality(EmitPos(n, slot)) = 1
  /\ \A k \in EmitPos(n, slot) : log.tr[k].text = text

TryNodes(t, type) == {n \in NodeIds(t) : t[n].type = type}

=============================================================================
